---- MODULE Spec2Model ----
(***************************************************************************)
(* Model of the OpenStreetlifting import pipeline: the athlete name        *)
(* normaliser, the slug generator, the canonical validator, the canonical  *)
(* transactional importer, the LiftControl exporter and direct importer,   *)
(* the athlete repository and the RIS computation.                         *)
(*                                                                         *)
(* Conventions.  A Rust String whose characters matter (names, slugs,      *)
(* category labels) is a sequence of one-character strings.  A String      *)
(* that is only compared for equality is a TLA+ string.  Option<T> is a    *)
(* sequence of length 0 (None) or 1 (Some).  Decimal weights are integers  *)
(* (kilograms); RIS scores are integers counting hundredths.  Row ids      *)
(* (UUIDs) are fresh natural numbers.  Timestamps (created_at, updated_at, *)
(* computed_at) are not modelled.                                          *)
(***************************************************************************)
EXTENDS Integers, Sequences, FiniteSets, TLC

None == << >>

Some(x) == << x >>

IsSome(o) == Len(o) = 1

Unwrap(o) == o[1]

UnwrapOr(o, d) == IF Len(o) = 1 THEN o[1] ELSE d

\* let value = ...; body: the value is computed once and named in the body
Let(value, body(_)) == body(value)

(***************************************************************************)
(* Characters and strings                                                  *)
(***************************************************************************)
UpperLetters ==
  << "A","B","C","D","E","F","G","H","I","J","K","L","M",
     "N","O","P","Q","R","S","T","U","V","W","X","Y","Z" >>

LowerLetters ==
  << "a","b","c","d","e","f","g","h","i","j","k","l","m",
     "n","o","p","q","r","s","t","u","v","w","x","y","z" >>

Digits == << "0","1","2","3","4","5","6","7","8","9" >>

Range(f) == { f[i] : i \in DOMAIN f }

IndexIn(c, tuple) == CHOOSE i \in DOMAIN tuple : tuple[i] = c

\* char::to_lowercase for the characters of the model's alphabet
CharToLower(c) ==
  IF c \in Range(UpperLetters) THEN LowerLetters[IndexIn(c, UpperLetters)]
  ELSE IF c = "É" THEN "é"
  ELSE c

\* char::to_uppercase: yields a string, because some characters have a
\* multi-character uppercase form (U+00DF)
CharToUpper(c) ==
  IF c \in Range(LowerLetters) THEN << UpperLetters[IndexIn(c, LowerLetters)] >>
  ELSE IF c = "é" THEN << "É" >>
  ELSE IF c = "ß" THEN << "S", "S" >>
  ELSE << c >>

IsWhitespace(c) == c \in { " ", "\t" }

IsAlphabetic(c) ==
  c \in Range(UpperLetters) \cup Range(LowerLetters) \cup { "é", "É", "ß" }

IsNumeric(c) == c \in Range(Digits)

IsAlphanumeric(c) == IsAlphabetic(c) \/ IsNumeric(c)

\* str::to_lowercase
ToLowercase(s) == [ i \in 1..Len(s) |-> CharToLower(s[i]) ]

RECURSIVE TrimStart(_)
TrimStart(s) ==
  IF s # << >> /\ IsWhitespace(Head(s)) THEN TrimStart(Tail(s)) ELSE s

RECURSIVE TrimEnd(_)
TrimEnd(s) ==
  IF s # << >> /\ IsWhitespace(s[Len(s)]) THEN TrimEnd(SubSeq(s, 1, Len(s) - 1))
  ELSE s

\* str::trim
Trim(s) == TrimEnd(TrimStart(s))

\* str::split(sep) for a one-character separator: the pieces between separators
RECURSIVE SplitAcc(_, _, _)
SplitAcc(s, sep, piece) ==
  IF s = << >> THEN << piece >>
  ELSE IF Head(s) = sep THEN << piece >> \o SplitAcc(Tail(s), sep, << >>)
  ELSE SplitAcc(Tail(s), sep, Append(piece, Head(s)))

SplitChar(s, sep) == SplitAcc(s, sep, << >>)

RECURSIVE JoinWith(_, _)
JoinWith(pieces, sep) ==
  IF pieces = << >> THEN << >>
  ELSE IF Len(pieces) = 1 THEN pieces[1]
  ELSE pieces[1] \o << sep >> \o JoinWith(Tail(pieces), sep)

NonEmptyPieces(pieces) == SelectSeq(pieces, LAMBDA p : p # << >>)

\* Display of a non-negative integer
RECURSIVE IntToStr(_)
IntToStr(n) ==
  IF n < 10 THEN << Digits[n + 1] >>
  ELSE IntToStr(n \div 10) \o << Digits[(n % 10) + 1] >>

\* Display of a signed integer
IntDisplay(n) == IF n < 0 THEN << "-" >> \o IntToStr(0 - n) ELSE IntToStr(n)

(***************************************************************************)
(* NormalizedAthleteName                                                   *)
(***************************************************************************)
normalize_name_part(name) ==
  LET trimmed == Trim(name)
  IN IF trimmed = << >> THEN << >>
     ELSE CharToUpper(Head(trimmed)) \o ToLowercase(Tail(trimmed))

NormalizedAthleteName(first_name, last_name) ==
  [ first_name |-> normalize_name_part(first_name),
    last_name  |-> normalize_name_part(last_name) ]

(***************************************************************************)
(* Slug generation (three textually identical copies in the source)        *)
(***************************************************************************)
BaseSlug(first_name, last_name) ==
  LET joined   == first_name \o << "-" >> \o last_name
      lowered  == ToLowercase(joined)
      filtered == SelectSeq(lowered, LAMBDA c : IsAlphanumeric(c) \/ c = "-")
      slug     == JoinWith(NonEmptyPieces(SplitChar(filtered, "-")), "-")
  IN IF slug = << >> THEN << "a","t","h","l","e","t","e" >> ELSE slug

\* the while loop: final_slug, counter and the number of queries issued
RECURSIVE SlugLoop(_, _, _, _, _)
SlugLoop(base_slug, final_slug, counter, taken, queries) ==
  IF final_slug \in taken
  THEN SlugLoop(base_slug, base_slug \o << "-" >> \o IntToStr(counter),
                counter + 1, taken, queries + 1)
  ELSE [ slug |-> final_slug, queries |-> queries + 1 ]

\* a plausible slip: the existence check is skipped
generate_unique_slug_NoCheck(first_name, last_name, taken) ==
  [ slug |-> BaseSlug(first_name, last_name), queries |-> 0 ]

generate_unique_slug(first_name, last_name, taken) ==
  LET base_slug == BaseSlug(first_name, last_name)
  IN SlugLoop(base_slug, base_slug, 2, taken, 0)

(***************************************************************************)
(* RIS formula and computation                                             *)
(***************************************************************************)
\* RisFormulaVersion::constants_for_gender: the stored genders of the model are
\* upper case already; every gender that is not a women's label uses the men's
constants_for_gender(formula, gender) ==
  IF gender \in { "F", "FEMALE", "WOMEN" } THEN formula.women ELSE formula.men

\* decimal_exp: f64 exp of the argument, kept to two decimals (hundredths)
decimal_exp(x) ==
  CASE x = -2 -> 14
    [] x = -1 -> 37
    [] x = 0  -> 100
    [] x = 1  -> 272
    [] x = 2  -> 739
    [] x < -2 -> 0
    [] OTHER  -> 2009

\* Decimal::round_dp(2) of num/den, counted in hundredths (banker's rounding)
RoundDp2(num, den) ==
  LET scaled == num * 100
      q == scaled \div den
      r == scaled % den
  IN IF 2 * r < den THEN q
     ELSE IF 2 * r > den THEN q + 1
     ELSE IF q % 2 = 0 THEN q ELSE q + 1

\* Total * 100 / (A + (K - A) / (1 + Q * e^(-B * (BW - v))))
compute_ris(bodyweight, total, gender, formula) ==
  LET c == constants_for_gender(formula, gender)
      bw_minus_v == bodyweight - c.v
      exp_arg == (0 - c.b) * bw_minus_v
      exp_term == decimal_exp(exp_arg)
      one_plus == 100 + c.q * exp_term
      \* denominator = (a * one_plus + (k - a) * 100) / one_plus
      den_num == c.a * one_plus + (c.k - c.a) * 100
  IN RoundDp2(total * 100 * one_plus, den_num)

MinBy(rows, key(_)) == CHOOSE r \in rows : \A o \in rows : key(r) <= key(o)

MaxBy(rows, key(_)) == CHOOSE r \in rows : \A o \in rows : key(r) >= key(o)

\* a plausible slip: the current version is used whatever the date
get_formula_for_date_Current(formulas, date) ==
  LET matching == { f \in formulas : f.is_current }
  IN IF matching = {} THEN None
     ELSE Some(MaxBy(matching, LAMBDA f : f.effective_from))

\* RisRepository::get_formula_for_date
get_formula_for_date(formulas, date) ==
  LET matching == { f \in formulas :
                      /\ f.effective_from <= date
                      /\ (f.effective_until = None \/ Unwrap(f.effective_until) > date) }
  IN IF matching = {} THEN None
     ELSE Some(MaxBy(matching, LAMBDA f : f.effective_from))

\* RisRepository::get_current_formula
get_current_formula(formulas) ==
  LET matching == { f \in formulas : f.is_current }
  IN IF matching = {} THEN None
     ELSE Some(MinBy(matching, LAMBDA f : f.formula_id))

(***************************************************************************)
(* The relational store                                                    *)
(***************************************************************************)
SumOver(rows, val(_)) ==
  LET RECURSIVE Acc(_)
      Acc(rs) == IF rs = {} THEN 0
                 ELSE LET r == CHOOSE x \in rs : TRUE
                      IN val(r) + Acc(rs \ { r })
  IN Acc(rows)

\* SELECT ... fetch_optional: the first matching row, if any
FetchOptional(rows, id(_)) ==
  IF rows = {} THEN None ELSE Some(MinBy(rows, id))

\* COALESCE(SUM(l.max_weight), 0) over the participant's lifts
LiftTotal(s, participant_id) ==
  SumOver({ l \in s.lifts : l.participant_id = participant_id /\ IsSome(l.max_weight) },
          LAMBDA l : Unwrap(l.max_weight))

(***************************************************************************)
(* CanonicalTransformer: every operator takes the transaction's view of    *)
(* the store and returns the view after its statements                     *)
(***************************************************************************)
get_or_create_federation(s, federation) ==
  LET existing == FetchOptional({ f \in s.federations : f.name = federation.name },
                                LAMBDA f : f.federation_id)
  IN IF IsSome(existing) THEN [ s |-> s, id |-> Unwrap(existing).federation_id ]
     ELSE [ s |-> [ s EXCEPT !.nextId = @ + 1,
                             !.federations = @ \cup
                               { [ federation_id |-> s.nextId,
                                   name |-> federation.name,
                                   abbreviation |-> federation.abbreviation,
                                   country |-> federation.country ] } ],
            id |-> s.nextId ]

\* the statement with every column of the row in its DO UPDATE SET list
UpsertCompetitionRow_AllColumns(s, federation_id, competition) ==
  LET conflict == { c \in s.competitions : c.slug = competition.slug }
      row(id) == [ competition_id |-> id,
                   name |-> competition.name,
                   slug |-> competition.slug,
                   status |-> competition.status,
                   federation_id |-> federation_id,
                   start_date |-> competition.start_date,
                   end_date |-> competition.end_date,
                   venue |-> competition.venue,
                   city |-> competition.city,
                   country |-> competition.country,
                   number_of_judge |-> competition.number_of_judges ]
  IN IF conflict # {}
     THEN LET old == CHOOSE c \in conflict : TRUE
          IN [ s |-> [ s EXCEPT !.competitions = (@ \ { old }) \cup { row(old.competition_id) } ],
               id |-> old.competition_id ]
     ELSE [ s |-> [ s EXCEPT !.nextId = @ + 1,
                             !.competitions = @ \cup { row(s.nextId) } ],
            id |-> s.nextId ]

\* INSERT INTO competitions ... ON CONFLICT (slug) DO UPDATE SET name, status,
\* venue, city, country, number_of_judge; country is a nullable column
UpsertCompetitionRow(s, federation_id, competition) ==
  LET conflict == { c \in s.competitions : c.slug = competition.slug }
  IN IF conflict # {}
     THEN LET old == CHOOSE c \in conflict : TRUE
              new == [ old EXCEPT !.name = competition.name,
                                  !.status = competition.status,
                                  !.venue = competition.venue,
                                  !.city = competition.city,
                                  !.country = competition.country,
                                  !.number_of_judge = competition.number_of_judges ]
          IN [ s |-> [ s EXCEPT !.competitions = (@ \ { old }) \cup { new } ],
               id |-> old.competition_id ]
     ELSE [ s |-> [ s EXCEPT !.nextId = @ + 1,
                             !.competitions = @ \cup
                               { [ competition_id |-> s.nextId,
                                   name |-> competition.name,
                                   slug |-> competition.slug,
                                   status |-> competition.status,
                                   federation_id |-> federation_id,
                                   start_date |-> competition.start_date,
                                   end_date |-> competition.end_date,
                                   venue |-> competition.venue,
                                   city |-> competition.city,
                                   country |-> competition.country,
                                   number_of_judge |-> competition.number_of_judges ] } ],
            id |-> s.nextId ]

upsert_competition(s, competition) ==
  LET fed == get_or_create_federation(s, competition.federation)
  IN UpsertCompetitionRow(fed.s, fed.id,
       [ competition EXCEPT !.status = UnwrapOr(competition.status, "completed"),
                            !.country = Some(competition.country) ])

\* one INSERT ... ON CONFLICT (competition_id, movement_name) DO UPDATE
UpsertMovementRow(s, competition_id, movement_name, is_required, display_order) ==
  LET row == [ competition_id |-> competition_id,
               movement_name |-> movement_name,
               is_required |-> is_required,
               display_order |-> display_order ]
      conflict == { m \in s.competition_movements :
                      m.competition_id = competition_id /\ m.movement_name = movement_name }
  IN [ s EXCEPT !.competition_movements = (@ \ conflict) \cup { row } ]

RECURSIVE upsert_competition_movements(_, _, _)
upsert_competition_movements(s, competition_id, movements) ==
  IF movements = << >> THEN s
  ELSE LET m == Head(movements)
       IN upsert_competition_movements(
            UpsertMovementRow(s, competition_id, m.name,
                              UnwrapOr(m.is_required, TRUE), m.order),
            competition_id, Tail(movements))

InsertCategory(s, name, gender, weight_class_min, weight_class_max) ==
  [ s |-> [ s EXCEPT !.nextId = @ + 1,
                     !.categories = @ \cup
                       { [ category_id |-> s.nextId,
                           name |-> name,
                           gender |-> gender,
                           weight_class_min |-> weight_class_min,
                           weight_class_max |-> weight_class_max ] } ],
    id |-> s.nextId ]

upsert_category(s, category) ==
  LET existing == FetchOptional({ c \in s.categories :
                                    c.name = category.name /\ c.gender = category.gender },
                                LAMBDA c : c.category_id)
  IN IF IsSome(existing) THEN [ s |-> s, id |-> Unwrap(existing).category_id ]
     ELSE InsertCategory(s, category.name, category.gender,
                         category.weight_class_min, category.weight_class_max)

TakenSlugs(s) == { a.slug : a \in s.athletes }

InsertAthlete(s, first_name, last_name, gender, country, nationality, slug) ==
  [ s |-> [ s EXCEPT !.nextId = @ + 1,
                     !.athletes = @ \cup
                       { [ athlete_id |-> s.nextId,
                           first_name |-> first_name,
                           last_name |-> last_name,
                           gender |-> gender,
                           country |-> country,
                           nationality |-> nationality,
                           slug |-> slug,
                           slug_history |-> << >> ] } ],
    id |-> s.nextId ]

\* the SELECT by (first_name, last_name, gender, country), then the INSERT
FindOrInsertAthlete(s, first_name, last_name, gender, country, nationality) ==
  Let(NormalizedAthleteName(first_name, last_name), LAMBDA normalized_name :
  Let(normalized_name.first_name, LAMBDA db_first_name :
  Let(normalized_name.last_name, LAMBDA db_last_name :
  Let(FetchOptional({ a \in s.athletes :
                        /\ a.first_name = db_first_name
                        /\ a.last_name = db_last_name
                        /\ a.gender = gender
                        /\ a.country = country },
                    LAMBDA a : a.athlete_id), LAMBDA existing :
    IF IsSome(existing) THEN [ s |-> s, id |-> Unwrap(existing).athlete_id ]
    ELSE InsertAthlete(s, db_first_name, db_last_name, gender, country, nationality,
                       generate_unique_slug(db_first_name, db_last_name,
                                            TakenSlugs(s)).slug)))))

\* a plausible slip: the lookup is skipped and a row is always inserted
upsert_athlete_AlwaysInsert(s, athlete, category) ==
  LET n == NormalizedAthleteName(athlete.first_name, athlete.last_name)
  IN InsertAthlete(s, n.first_name, n.last_name,
                   UnwrapOr(athlete.gender, category.gender), athlete.country,
                   athlete.nationality,
                   generate_unique_slug(n.first_name, n.last_name, TakenSlugs(s)).slug)

upsert_athlete(s, athlete, category) ==
  FindOrInsertAthlete(s, athlete.first_name, athlete.last_name,
                      UnwrapOr(athlete.gender, category.gender),
                      athlete.country, athlete.nationality)

\* INSERT INTO competition_participants ... ON CONFLICT (competition_id,
\* category_id, athlete_id) DO UPDATE SET bodyweight, rank, is_disqualified,
\* disqualified_reason
UpsertParticipant(s, competition_id, category_id, athlete_id, athlete) ==
  LET is_disqualified == UnwrapOr(athlete.is_disqualified, FALSE)
      conflict == { p \in s.participants :
                      /\ p.competition_id = Some(competition_id)
                      /\ p.category_id = Some(category_id)
                      /\ p.athlete_id = athlete_id }
  IN IF conflict # {}
     THEN LET old == CHOOSE p \in conflict : TRUE
              new == [ old EXCEPT !.bodyweight = athlete.bodyweight,
                                  !.rank = None,
                                  !.is_disqualified = is_disqualified,
                                  !.disqualified_reason = athlete.disqualified_reason ]
          IN [ s EXCEPT !.participants = (@ \ { old }) \cup { new } ]
     ELSE [ s EXCEPT !.nextId = @ + 1,
                     !.participants = @ \cup
                       { [ participant_id |-> s.nextId,
                           competition_id |-> Some(competition_id),
                           category_id |-> Some(category_id),
                           group_id |-> None,
                           athlete_id |-> athlete_id,
                           bodyweight |-> athlete.bodyweight,
                           rank |-> None,
                           is_disqualified |-> is_disqualified,
                           disqualified_reason |-> athlete.disqualified_reason,
                           ris_score |-> None ] } ]

\* INSERT INTO attempts ... ON CONFLICT (lift_id, attempt_number) DO UPDATE
UpsertAttemptRow(s, lift_id, attempt_number, weight, is_successful, passing_judges, no_rep_reason, created_by) ==
  LET row == [ lift_id |-> lift_id,
               attempt_number |-> attempt_number,
               weight |-> weight,
               is_successful |-> is_successful,
               passing_judges |-> passing_judges,
               no_rep_reason |-> no_rep_reason,
               created_by |-> created_by ]
      conflict == { a \in s.attempts :
                      a.lift_id = lift_id /\ a.attempt_number = attempt_number }
  IN [ s EXCEPT !.attempts = (@ \ conflict) \cup { row } ]

\* INSERT INTO lifts ... ON CONFLICT (participant_id, movement_name) DO UPDATE
\* SET max_weight, equipment_setting
UpsertLiftRow(s, participant_id, movement_name, max_weight, settings) ==
  LET conflict == { l \in s.lifts :
                      l.participant_id = participant_id /\ l.movement_name = movement_name }
  IN IF conflict # {}
     THEN LET old == CHOOSE l \in conflict : TRUE
              new == [ old EXCEPT !.max_weight = max_weight,
                                  !.equipment_setting = settings ]
          IN [ s EXCEPT !.lifts = (@ \ { old }) \cup { new } ]
     ELSE [ s EXCEPT !.nextId = @ + 1,
                     !.lifts = @ \cup
                       { [ lift_id |-> s.nextId,
                           participant_id |-> participant_id,
                           movement_name |-> movement_name,
                           max_weight |-> max_weight,
                           equipment_setting |-> settings ] } ]

LiftIdOf(s, participant_id, movement_name) ==
  (CHOOSE l \in s.lifts :
     l.participant_id = participant_id /\ l.movement_name = movement_name).lift_id

import_attempt(s, participant_id, movement_name, attempt) ==
  UpsertAttemptRow(s, LiftIdOf(s, participant_id, movement_name),
                   attempt.attempt_number, Some(attempt.weight), attempt.is_successful,
                   None, attempt.no_rep_reason, "Canonical Importer")

RECURSIVE ImportAttempts(_, _, _, _)
ImportAttempts(s, participant_id, movement_name, attempts) ==
  IF attempts = << >> THEN s
  ELSE ImportAttempts(import_attempt(s, participant_id, movement_name, Head(attempts)),
                      participant_id, movement_name, Tail(attempts))

\* lift.attempts.iter().filter(|a| a.is_successful).map(|a| a.weight).max()
BestSuccessful(attempts) ==
  LET good == { attempts[i].weight : i \in { j \in DOMAIN attempts : attempts[j].is_successful } }
  IN IF good = {} THEN None
     ELSE Some(CHOOSE w \in good : \A o \in good : w >= o)

CanonicalSettings(lift, athlete) ==
  IF lift.movement = "Dips" THEN athlete.reglage_dips
  ELSE IF lift.movement = "Squat" THEN athlete.reglage_squat
  ELSE None

ParticipantIdOf(s, competition_id, category_id, athlete_id) ==
  (CHOOSE p \in s.participants :
     /\ p.competition_id = Some(competition_id)
     /\ p.category_id = Some(category_id)
     /\ p.athlete_id = athlete_id).participant_id

import_lift(s, competition_id, category_id, athlete_id, lift, athlete) ==
  LET max_weight == BestSuccessful(lift.attempts)
      settings == CanonicalSettings(lift, athlete)
      participant_id == ParticipantIdOf(s, competition_id, category_id, athlete_id)
      s1 == UpsertLiftRow(s, participant_id, lift.movement, max_weight, settings)
  IN ImportAttempts(s1, participant_id, lift.movement, lift.attempts)

RECURSIVE ImportLifts(_, _, _, _, _, _)
ImportLifts(s, competition_id, category_id, athlete_id, lifts, athlete) ==
  IF lifts = << >> THEN s
  ELSE ImportLifts(import_lift(s, competition_id, category_id, athlete_id,
                               Head(lifts), athlete),
                   competition_id, category_id, athlete_id, Tail(lifts), athlete)

import_athlete_performance(s, athlete, category, competition_id, category_id) ==
  Let(upsert_athlete(s, athlete, category), LAMBDA up :
    ImportLifts(UpsertParticipant(up.s, competition_id, category_id, up.id, athlete),
                competition_id, category_id, up.id, athlete.lifts, athlete))

RECURSIVE ImportAthletes(_, _, _, _, _)
ImportAthletes(s, athletes, category, competition_id, category_id) ==
  IF athletes = << >> THEN s
  ELSE ImportAthletes(
         import_athlete_performance(s, Head(athletes), category, competition_id,
                                    category_id),
         Tail(athletes), category, competition_id, category_id)

\* one iteration of the category loop of import_to_database
ImportCategory(s, category, competition_id) ==
  LET up == upsert_category(s, category)
  IN ImportAthletes(up.s, category.athletes, category, competition_id, up.id)

\* UPDATE competition_participants SET ris_score, then the history upsert
StoreRis(s, participant, formula_id, ris_score, bodyweight, total) ==
  LET hist == [ participant_id |-> participant.participant_id,
                formula_id |-> formula_id,
                ris_score |-> ris_score,
                bodyweight |-> bodyweight,
                total_weight |-> total ]
      conflict == { h \in s.ris_scores_history :
                      /\ h.participant_id = participant.participant_id
                      /\ h.formula_id = formula_id }
  IN [ s EXCEPT !.participants =
                   (@ \ { participant }) \cup
                     { [ participant EXCEPT !.ris_score = Some(ris_score) ] },
                !.ris_scores_history = (@ \ conflict) \cup { hist } ]

RECURSIVE ScoreParticipants(_, _, _)
ScoreParticipants(s, todo, formula) ==
  IF todo = {} THEN s
  ELSE LET p == MinBy(todo, LAMBDA x : x.participant_id)
           athlete == CHOOSE a \in s.athletes : a.athlete_id = p.athlete_id
           total == LiftTotal(s, p.participant_id)
           ris_score == compute_ris(Unwrap(p.bodyweight), total, athlete.gender, formula)
           s1 == IF IsSome(p.bodyweight)
                 THEN StoreRis(s, p, formula.formula_id, ris_score,
                               Unwrap(p.bodyweight), total)
                 ELSE s
       IN ScoreParticipants(s1, todo \ { p }, formula)

\* the participants query: the competition's participants joined with athletes
CompetitionParticipants(s, competition_id) ==
  { p \in s.participants :
      /\ p.competition_id = Some(competition_id)
      /\ \E a \in s.athletes : a.athlete_id = p.athlete_id }

\* compute_ris_for_competition: the formula is read through the pool (the
\* committed store), everything else through the transaction
compute_ris_for_competition(s, competition_id, competition_date, pool) ==
  LET formula == get_formula_for_date(pool.ris_formula_versions, competition_date)
  IN IF formula = None THEN [ ok |-> FALSE, s |-> s ]
     ELSE [ ok |-> TRUE,
            s |-> ScoreParticipants(s, CompetitionParticipants(s, competition_id),
                                    Unwrap(formula)) ]

RECURSIVE ImportCategories(_, _, _)
ImportCategories(s, categories, competition_id) ==
  IF categories = << >> THEN s
  ELSE ImportCategories(ImportCategory(s, Head(categories), competition_id),
                        Tail(categories), competition_id)

\* import_to_database run from begin to commit with no statement failing:
\* whether it committed, and the committed store
import_to_database(s, canonical) ==
  LET up == upsert_competition(s, canonical.competition)
      s1 == upsert_competition_movements(up.s, up.id, canonical.movements)
      s2 == ImportCategories(s1, canonical.categories, up.id)
      r == compute_ris_for_competition(s2, up.id, canonical.competition.start_date, s)
  IN IF r.ok THEN [ ok |-> TRUE, s |-> r.s ] ELSE [ ok |-> FALSE, s |-> s ]

(***************************************************************************)
(* CanonicalValidator.  A message is a sequence of string tokens (the      *)
(* pieces format! concatenates); a Rust String built from several messages *)
(* is the concatenation of their tokens.                                   *)
(***************************************************************************)
FlatMap(seq, f(_)) ==
  LET acc[i \in 0..Len(seq)] == IF i = 0 THEN << >> ELSE acc[i - 1] \o f(seq[i])
  IN acc[Len(seq)]

\* the sequence of <<index, element>> pairs of iter().enumerate(), from 1
Enumerated(seq) == [ i \in DOMAIN seq |-> [ idx |-> i, item |-> seq[i] ] ]

OneIf(cond, msg) == IF cond THEN << msg >> ELSE << >>

athlete_label(idx, athlete) ==
  IntToStr(idx) \o << ". " >> \o athlete.first_name \o << " " >> \o athlete.last_name

\* the names inserted into movement_names before movement i is looked at
NamesBefore(movements, i) == { movements[j].name : j \in 1..(i - 1) }

MovementErrors(movements) ==
  FlatMap(Enumerated(movements), LAMBDA e :
    OneIf(e.item.name = "", << "Movement name cannot be empty" >>)
    \o OneIf(e.item.order < 1,
             << "Movement '", e.item.name, "' has invalid order: " >>
             \o IntDisplay(e.item.order) \o << ". Order must be >= 1" >>)
    \o OneIf(e.item.name \in NamesBefore(movements, e.idx),
             << "Duplicate movement name: '", e.item.name, "'" >>))

AttemptErrors(label, lift, attempt) ==
  OneIf(attempt.attempt_number < 1 \/ attempt.attempt_number > 3,
        << "Athlete '" >> \o label \o << "', movement '", lift.movement,
           "': invalid attempt_number " >> \o IntDisplay(attempt.attempt_number)
        \o << ". Must be 1-3" >>)
  \o OneIf(attempt.weight < 0,
           << "Athlete '" >> \o label \o << "', movement '", lift.movement,
              "', attempt " >> \o IntDisplay(attempt.attempt_number)
           \o << ": negative weight" >>)

\* a plausible slip: the unknown-movement rule is missing
LiftErrors_NoMovementRule(label, lift, movement_names) ==
  OneIf(lift.attempts = << >>,
        << "Athlete '" >> \o label \o << "' has lift '", lift.movement,
           "' with no attempts" >>)
  \o FlatMap(lift.attempts, LAMBDA a : AttemptErrors(label, lift, a))

LiftErrors(label, lift, movement_names) ==
  OneIf(lift.movement \notin movement_names,
        << "Athlete '" >> \o label \o << "' has lift for unknown movement: '",
           lift.movement, "'" >>)
  \o OneIf(lift.attempts = << >>,
           << "Athlete '" >> \o label \o << "' has lift '", lift.movement,
              "' with no attempts" >>)
  \o FlatMap(lift.attempts, LAMBDA a : AttemptErrors(label, lift, a))

AthleteErrors(category, idx, athlete, movement_names) ==
  LET label == athlete_label(idx, athlete)
  IN OneIf(athlete.first_name = << >>,
           << "Athlete in category '" >> \o category.name
             \o << "' has empty first_name" >>)
     \o OneIf(athlete.last_name = << >>,
              << "Athlete in category '" >> \o category.name
                \o << "' has empty last_name" >>)
     \o OneIf(athlete.country = "",
              << "Athlete '" >> \o label \o << "' has empty country" >>)
     \o FlatMap(athlete.lifts, LAMBDA l : LiftErrors(label, l, movement_names))

AthleteWarnings(idx, athlete) ==
  LET label == athlete_label(idx, athlete)
  IN OneIf(athlete.bodyweight = None,
           << "Athlete '" >> \o label \o << "' is missing bodyweight" >>)
     \o OneIf(athlete.lifts = << >>,
              << "Athlete '" >> \o label \o << "' has no lifts" >>)

CategoryErrors(category, movement_names) ==
  OneIf(category.name = << >>, << "Category name cannot be empty" >>)
  \o OneIf(category.gender # "M" /\ category.gender # "F",
           << "Invalid gender in category '" >> \o category.name
              \o << "': '", category.gender, "'" >>)
  \o FlatMap(Enumerated(category.athletes), LAMBDA e :
       AthleteErrors(category, e.idx, e.item, movement_names))

CategoryWarnings(category) ==
  OneIf(category.athletes = << >>,
        << "Category '" >> \o category.name \o << "' has no athletes" >>)
  \o FlatMap(Enumerated(category.athletes), LAMBDA e : AthleteWarnings(e.idx, e.item))

\* report.errors in the order validate pushes them
ReportErrors(canonical) ==
  LET movement_names == { canonical.movements[i].name : i \in DOMAIN canonical.movements }
  IN OneIf(canonical.format_version # "1.0.0",
           << "Unsupported format version: ", canonical.format_version >>)
     \o OneIf(canonical.competition.name = "", << "Competition name is required" >>)
     \o OneIf(canonical.competition.slug = "", << "Competition slug is required" >>)
     \o OneIf(canonical.competition.country = "",
              << "Competition country is required" >>)
     \o OneIf(canonical.competition.end_date < canonical.competition.start_date,
              << "Competition end_date must be >= start_date" >>)
     \o OneIf(canonical.competition.federation.name = "",
              << "Federation name is required" >>)
     \o OneIf(canonical.movements = << >>, << "At least one movement is required" >>)
     \o MovementErrors(canonical.movements)
     \o OneIf(canonical.categories = << >>, << "At least one category is required" >>)
     \o FlatMap(canonical.categories, LAMBDA c : CategoryErrors(c, movement_names))

ReportWarnings(canonical) ==
  OneIf(canonical.competition.venue = None,
        << "Competition venue is not specified" >>)
  \o OneIf(canonical.competition.city = None,
           << "Competition city is not specified" >>)
  \o OneIf(canonical.competition.number_of_judges = None,
           << "Number of judges is not specified" >>)
  \o FlatMap(canonical.categories, CategoryWarnings)

\* report.errors.join("; ")
RECURSIVE JoinMessages(_)
JoinMessages(errors) ==
  IF errors = << >> THEN << >>
  ELSE IF Len(errors) = 1 THEN errors[1]
  ELSE errors[1] \o << "; " >> \o JoinMessages(Tail(errors))

\* CanonicalValidator::validate: Ok(report), or Err(ValidationError(String))
validate(canonical) ==
  Let(ReportErrors(canonical), LAMBDA errors :
    IF errors # << >>
    THEN [ ok |-> FALSE,
           kind |-> "ValidationError",
           message |-> << "Validation failed with " >> \o IntToStr(Len(errors))
                       \o << " error(s): " >> \o JoinMessages(errors),
           report |-> [ errors |-> << >>, warnings |-> << >> ] ]
    ELSE [ ok |-> TRUE, kind |-> "", message |-> << >>,
           report |-> [ errors |-> errors, warnings |-> ReportWarnings(canonical) ] ])

(***************************************************************************)
(* String searching and parsing used by the LiftControl source             *)
(***************************************************************************)
StartsWith(s, p) == Len(s) >= Len(p) /\ SubSeq(s, 1, Len(p)) = p

EndsWith(s, p) == Len(s) >= Len(p) /\ SubSeq(s, Len(s) - Len(p) + 1, Len(s)) = p

\* str::find: the position of the first occurrence, 0 when there is none
Find(s, p) ==
  LET hits == { i \in 1..(Len(s) - Len(p) + 1) : SubSeq(s, i, i + Len(p) - 1) = p }
  IN IF hits = {} THEN 0 ELSE CHOOSE i \in hits : \A j \in hits : i <= j

Contains(s, p) == Find(s, p) # 0

From(s, i) == SubSeq(s, i, Len(s))

RECURSIVE TrimStartMatches(_, _)
TrimStartMatches(s, p) ==
  IF p # << >> /\ StartsWith(s, p) THEN TrimStartMatches(From(s, Len(p) + 1), p) ELSE s

RECURSIVE TrimEndMatches(_, _)
TrimEndMatches(s, p) ==
  IF p # << >> /\ EndsWith(s, p) THEN TrimEndMatches(SubSeq(s, 1, Len(s) - Len(p)), p)
  ELSE s

\* str::split with a string separator
RECURSIVE SplitStr(_, _)
SplitStr(s, sep) ==
  LET i == Find(s, sep)
  IN IF i = 0 THEN << s >>
     ELSE << SubSeq(s, 1, i - 1) >> \o SplitStr(From(s, i + Len(sep)), sep)

RECURSIVE DigitsValue(_)
DigitsValue(s) ==
  IF s = << >> THEN 0
  ELSE 10 * DigitsValue(SubSeq(s, 1, Len(s) - 1)) + (IndexIn(s[Len(s)], Digits) - 1)

\* str::parse::<i32> and Decimal::from_str on whole numbers: an optional sign
\* followed by at least one digit
ParseNumber(s) ==
  LET signed == s # << >> /\ s[1] \in { "-", "+" }
      body == IF signed THEN Tail(s) ELSE s
  IN IF body = << >> \/ \E i \in DOMAIN body : ~ IsNumeric(body[i]) THEN None
     ELSE IF signed /\ s[1] = "-" THEN Some(0 - DigitsValue(body))
     ELSE Some(DigitsValue(body))

\* an unordered HashMap handed over as a sequence of entries: iteration visits
\* them in the stored order or in the reverse one
Reverse(seq) == [ i \in 1..Len(seq) |-> seq[Len(seq) + 1 - i] ]

Iterate(map, reversed) == IF reversed THEN Reverse(map) ELSE map

\* HashMap::get
Get(map, key) ==
  LET found == SelectSeq(map, LAMBDA e : e.key = key)
  IN IF found = << >> THEN None ELSE Some(found[1].value)

Values(map) == [ i \in DOMAIN map |-> map[i].value ]

\* Vec::sort_by_key on the movements' order (the orders of one response differ)
RECURSIVE SortByOrder(_)
SortByOrder(movements) ==
  IF movements = << >> THEN << >>
  ELSE LET least == CHOOSE i \in DOMAIN movements :
                      \A j \in DOMAIN movements : movements[i].order <= movements[j].order
       IN << movements[least] >>
          \o SortByOrder(SelectSeq(movements, LAMBDA m : m # movements[least]))

(***************************************************************************)
(* Movement mapping                                                        *)
(***************************************************************************)
\* CanonicalMovement::as_str
as_str(movement) ==
  CASE movement = "MuscleUp" -> "Muscle-up"
    [] movement = "PullUp" -> "Pull-up"
    [] movement = "Dips" -> "Dips"
    [] movement = "Squat" -> "Squat"

\* a mapper that lets an unlisted label through as a squat
map_movement_Lenient(name) ==
  LET lower == ToLowercase(name)
  IN IF lower = << "t", "r", "a", "c", "t", "i", "o", "n" >> THEN Some("PullUp")
     ELSE IF lower = << "d", "i", "p", "s" >> THEN Some("Dips")
     ELSE IF lower \in { << "m", "u", "s", "c", "l", "e", "-", "u", "p" >>, << "m", "u", "s", "c", "l", "e", " ", "u", "p" >>, << "m", "u", "s", "c", "l", "e", "u", "p" >> } THEN Some("MuscleUp")
     ELSE Some("Squat")

\* LiftControlMovementMapper::map_movement
map_movement(name) ==
  LET lower == ToLowercase(name)
  IN IF lower = << "t", "r", "a", "c", "t", "i", "o", "n" >> THEN Some("PullUp")
     ELSE IF lower = << "d", "i", "p", "s" >> THEN Some("Dips")
     ELSE IF lower \in { << "m", "u", "s", "c", "l", "e", "-", "u", "p" >>, << "m", "u", "s", "c", "l", "e", " ", "u", "p" >>, << "m", "u", "s", "c", "l", "e", "u", "p" >> } THEN Some("MuscleUp")
     ELSE IF lower = << "s", "q", "u", "a", "t" >> THEN Some("Squat")
     ELSE None

(***************************************************************************)
(* LiftControlExporter: source response to canonical document              *)
(***************************************************************************)
\* a judge decision: DecisionRep::Number(n) or DecisionRep::String(s)
Number(n) == [ tag |-> "Number", n |-> n ]

String(s) == [ tag |-> "String", s |-> s ]

\* exporter.rs map_gender
exporter_map_gender(genre) ==
  LET lower == ToLowercase(genre)
  IN IF lower \in { << "h", "o", "m", "m", "e" >>, << "h", "o", "m", "m", "e", "s" >>, << "m", "e", "n" >>, << "m", "a", "n" >>, << "m", "a", "l", "e" >>, << "m" >> } THEN "M"
     ELSE IF lower \in { << "f", "e", "m", "m", "e" >>, << "f", "e", "m", "m", "e", "s" >>, << "w", "o", "m", "e", "n" >>, << "w", "o", "m", "a", "n" >>, << "f", "e", "m", "a", "l", "e" >>, << "f" >> }
     THEN "F"
     ELSE "M"

parse_weight_class(weight_class) ==
  LET dash == << "-" >>
      kg == << "k", "g" >>
      max_only == ParseNumber(TrimEndMatches(TrimStartMatches(weight_class, dash), kg))
      min_only == ParseNumber(TrimEndMatches(TrimEndMatches(weight_class, << "+" >>), kg))
      parts == SplitStr(weight_class, dash)
  IN IF (StartsWith(weight_class, dash) \/ EndsWith(weight_class, kg)) /\ IsSome(max_only)
     THEN [ min |-> None, max |-> max_only ]
     ELSE IF Contains(weight_class, << "+" >>) /\ IsSome(min_only)
     THEN [ min |-> min_only, max |-> None ]
     ELSE IF Contains(weight_class, dash) /\ ~ StartsWith(weight_class, dash)
             /\ Len(parts) = 2
     THEN [ min |-> ParseNumber(Trim(parts[1])),
            max |-> ParseNumber(TrimEndMatches(Trim(parts[2]), kg)) ]
     ELSE [ min |-> None, max |-> None ]

\* exporter.rs parse_category_name
exporter_parse_category_name(name) ==
  Let(SplitStr(name, << " ", "-", " " >>)[1], LAMBDA weight_class :
  Let(parse_weight_class(weight_class), LAMBDA bounds :
    [ weight_class |-> weight_class,
      weight_class_min |-> bounds.min,
      weight_class_max |-> bounds.max ]))

\* the is_successful match of build_attempt_data
build_attempt_successful(decision_rep) ==
  IF decision_rep.tag = "Number" THEN decision_rep.n >= 2
  ELSE decision_rep.s = << "v", "a", "l", "i", "d", "Ã", "©" >> \/ decision_rep.s = << "v", "a", "l", "i", "d", "e" >>

build_attempt_data(attempt) ==
  [ attempt_number |-> attempt.no_essai,
    weight |-> attempt.charge,
    is_successful |-> build_attempt_successful(attempt.decision_rep),
    no_rep_reason |-> attempt.justification_no_rep ]

\* the attempts stored under "1", "2", "3" that are present and not null
PresentAttempts(movement_results) ==
  LET slot(i) == IF i <= Len(movement_results.results)
                 THEN movement_results.results[i] ELSE None
  IN FlatMap(<< 1, 2, 3 >>, LAMBDA i : IF IsSome(slot(i)) THEN << Unwrap(slot(i)) >>
                                       ELSE << >>)

build_lift_data(movement, movement_results) ==
  Let(map_movement(movement.name), LAMBDA canonical_name :
  Let(PresentAttempts(movement_results), LAMBDA present :
    IF canonical_name = None THEN [ ok |-> FALSE, value |-> << >> ]
    ELSE [ ok |-> TRUE,
           value |-> [ movement |-> as_str(Unwrap(canonical_name)),
                       attempts |-> [ i \in DOMAIN present |->
                                        build_attempt_data(present[i]) ] ] ]))

build_athlete_data(metadata, athlete_data, movements) ==
  LET info == athlete_data.athlete_info
      bodyweight == IF IsSome(info.pesee) /\ Unwrap(info.pesee) > 0
                    THEN info.pesee ELSE None
  IN
  Let(SelectSeq(SortByOrder(Values(movements)),
                LAMBDA m : IsSome(Get(athlete_data.results, m.id))), LAMBDA movement_list :
  Let([ i \in DOMAIN movement_list |->
          build_lift_data(movement_list[i],
                          Unwrap(Get(athlete_data.results, movement_list[i].id))) ],
      LAMBDA lifts :
    IF \E i \in DOMAIN lifts : ~ lifts[i].ok THEN [ ok |-> FALSE, value |-> << >> ]
    ELSE [ ok |-> TRUE,
           value |-> [ first_name |-> info.first_name,
                       last_name |-> info.last_name,
                       gender |-> None,
                       country |-> metadata.default_athlete_country,
                       nationality |-> Some(metadata.default_athlete_nationality),
                       bodyweight |-> bodyweight,
                       is_disqualified |-> Some(info.is_out),
                       disqualified_reason |-> info.reason_out,
                       lifts |-> [ i \in DOMAIN lifts |-> lifts[i].value ],
                       reglage_dips |-> info.reglage_dips,
                       reglage_squat |-> info.reglage_squat ] ]))

build_movements(movements) ==
  Let([ i \in DOMAIN movements |-> map_movement(movements[i].value.name) ], LAMBDA mapped :
    IF \E i \in DOMAIN mapped : mapped[i] = None THEN [ ok |-> FALSE, value |-> << >> ]
    ELSE [ ok |-> TRUE,
           value |-> SortByOrder([ i \in DOMAIN movements |->
                                     [ name |-> as_str(Unwrap(mapped[i])),
                                       order |-> movements[i].value.order,
                                       is_required |-> Some(TRUE) ] ]) ])

build_competition_data(base_slug, metadata) ==
  [ name |-> metadata.name,
    slug |-> base_slug,
    federation |-> [ name |-> metadata.federation.name,
                     abbreviation |-> Some(metadata.federation.abbreviation),
                     country |-> Some(metadata.federation.country) ],
    start_date |-> metadata.start_date,
    end_date |-> metadata.end_date,
    venue |-> metadata.venue,
    city |-> metadata.city,
    country |-> UnwrapOr(metadata.country, "Unknown"),
    number_of_judges |-> metadata.number_of_judges,
    status |-> Some("completed") ]

\* one iteration of the loop of build_categories: acc is the accumulator map,
\* in insertion order
AddCategory(metadata, results, entry, order, acc) ==
  Let(exporter_parse_category_name(entry.value.name), LAMBDA parsed :
  Let(IF \E i \in DOMAIN acc.value : acc.value[i].name = parsed.weight_class
      THEN acc.value
      ELSE Append(acc.value,
                  [ name |-> parsed.weight_class,
                    gender |-> exporter_map_gender(entry.value.genre),
                    weight_class_min |-> parsed.weight_class_min,
                    weight_class_max |-> parsed.weight_class_max,
                    athletes |-> << >> ]), LAMBDA entries :
  Let(Get(results.results, entry.key), LAMBDA athletes_data :
  Let(IF IsSome(athletes_data)
      THEN Values(Iterate(Unwrap(athletes_data), order.athletes))
      ELSE << >>, LAMBDA visited :
  Let([ i \in DOMAIN visited |->
          build_athlete_data(metadata, visited[i], results.movements) ], LAMBDA built :
    IF ~ acc.ok \/ \E i \in DOMAIN built : ~ built[i].ok
    THEN [ ok |-> FALSE, value |-> << >> ]
    ELSE [ ok |-> TRUE,
           value |-> [ i \in DOMAIN entries |->
                         IF entries[i].name = parsed.weight_class
                         THEN [ entries[i] EXCEPT
                                  !.athletes = @ \o [ j \in DOMAIN built |-> built[j].value ] ]
                         ELSE entries[i] ] ])))))

RECURSIVE AddCategories(_, _, _, _, _)
AddCategories(metadata, results, todo, order, acc) ==
  IF todo = << >> THEN acc
  ELSE AddCategories(metadata, results, Tail(todo), order,
                     AddCategory(metadata, results, Head(todo), order, acc))

\* the categories are collected in a HashMap keyed by the weight class alone
\* and handed back in the map's iteration order
build_categories(metadata, results, order) ==
  Let(AddCategories(metadata, results,
                    Iterate(results.categories, order.categories), order,
                    [ ok |-> TRUE, value |-> << >> ]), LAMBDA folded :
    IF ~ folded.ok THEN folded
    ELSE [ ok |-> TRUE, value |-> Iterate(folded.value, order.values) ])

to_canonical(base_slug, metadata, api_response, order) ==
  Let(build_movements(api_response.results.movements), LAMBDA movements :
  Let(build_categories(metadata, api_response.results, order), LAMBDA categories :
    IF ~ movements.ok \/ ~ categories.ok THEN [ ok |-> FALSE, value |-> << >> ]
    ELSE [ ok |-> TRUE,
           value |-> [ format_version |-> "1.0.0",
                       competition |-> build_competition_data(base_slug, metadata),
                       movements |-> movements.value,
                       categories |-> categories.value ] ]))

(***************************************************************************)
(* LiftControlTransformer: source response straight into the store         *)
(***************************************************************************)
\* transformer.rs map_gender
liftcontrol_map_gender(genre) ==
  LET lower == ToLowercase(genre)
  IN IF lower \in { << "h", "o", "m", "m", "e" >>, << "h", "o", "m", "m", "e", "s" >>, << "m", "e", "n" >>, << "m", "a", "l", "e" >>, << "m" >> } THEN "M"
     ELSE IF lower \in { << "f", "e", "m", "m", "e" >>, << "f", "e", "m", "m", "e", "s" >>, << "w", "o", "m", "e", "n" >>, << "f", "e", "m", "a", "l", "e" >>, << "f" >> } THEN "F"
     ELSE "MX"

FirstSign(s) ==
  LET hits == { i \in DOMAIN s : s[i] \in { "-", "+" } }
  IN IF hits = {} THEN 0 ELSE CHOOSE i \in hits : \A j \in hits : i <= j

RECURSIVE TakeWhileNumeric(_)
TakeWhileNumeric(s) ==
  IF s # << >> /\ IsNumeric(Head(s)) THEN << Head(s) >> \o TakeWhileNumeric(Tail(s))
  ELSE << >>

LastAlphabetic(s) ==
  LET hits == { i \in DOMAIN s : IsAlphabetic(s[i]) }
  IN IF hits = {} THEN 0 ELSE CHOOSE i \in hits : \A j \in hits : i >= j

\* transformer.rs parse_category_name
liftcontrol_parse_category_name(name) ==
  LET keyword == << "C", "a", "t", "é", "g", "o", "r", "i", "e" >>
      open == << "O", "p", "e", "n" >>
      idx == Find(name, keyword)
      after_category == Trim(From(name, idx + Len(keyword)))
      sign_idx == FirstSign(after_category)
      numeric_part == TakeWhileNumeric(From(after_category, sign_idx + 1))
      weight_class == IF idx # 0 /\ sign_idx # 0 /\ numeric_part # << >>
                      THEN << after_category[sign_idx] >> \o numeric_part
                      ELSE open
      groupe_idx == Find(ToLowercase(name), << "g", "r", "o", "u", "p", "e" >>)
      group_part == From(name, groupe_idx)
      group_suffix == IF groupe_idx # 0 /\ LastAlphabetic(group_part) # 0
                      THEN << "G", "r", "o", "u", "p", "e", " " >> \o CharToUpper(group_part[LastAlphabetic(group_part)])
                      ELSE << "G", "r", "o", "u", "p", "e", " ", "A" >>
  IN [ weight_class |-> weight_class,
       group_name |-> weight_class \o << " " >> \o group_suffix ]

get_movement_settings(movement_name, athlete_info) ==
  LET lower_name == ToLowercase(movement_name)
  IN IF Contains(lower_name, << "d", "i", "p", "s" >>) THEN athlete_info.reglage_dips
     ELSE IF Contains(lower_name, << "s", "q", "u", "a", "t" >>) THEN athlete_info.reglage_squat
     ELSE None

count_passing_judges(decision) ==
  IF decision = 111 THEN Some(3)
  ELSE IF decision \in { 110, 101, 11 } THEN Some(2)
  ELSE IF decision \in { 100, 10, 1 } THEN Some(1)
  ELSE IF decision = 0 THEN Some(0)
  ELSE None

\* weights are whole numbers in the model: rounding keeps them, 0 becomes NULL
convert_weight(value) == IF value = 0 THEN None ELSE Some(value)

\* the success match of import_attempt
liftcontrol_attempt_success(decision_rep) ==
  IF decision_rep.tag = "Number" THEN decision_rep.n = 111 \/ decision_rep.n = 110
  ELSE decision_rep.s = << "1", "1", "1" >> \/ decision_rep.s = << "1", "1", "0" >>

liftcontrol_passing_judges(decision_rep) ==
  IF decision_rep.tag = "Number" THEN count_passing_judges(decision_rep.n)
  ELSE IF IsSome(ParseNumber(decision_rep.s))
       THEN count_passing_judges(Unwrap(ParseNumber(decision_rep.s)))
       ELSE None

liftcontrol_import_attempt(s, participant_id, movement_name, attempt) ==
  UpsertAttemptRow(s, LiftIdOf(s, participant_id, movement_name),
                   attempt.no_essai, convert_weight(attempt.charge),
                   liftcontrol_attempt_success(attempt.decision_rep),
                   liftcontrol_passing_judges(attempt.decision_rep),
                   attempt.justification_no_rep, "Adrien Pelfresne")

RECURSIVE LiftControlAttempts(_, _, _, _)
LiftControlAttempts(s, participant_id, movement_name, attempts) ==
  IF attempts = << >> THEN s
  ELSE LiftControlAttempts(
         liftcontrol_import_attempt(s, participant_id, movement_name, Head(attempts)),
         participant_id, movement_name, Tail(attempts))

GroupParticipantIdOf(s, group_id, athlete_id) ==
  (CHOOSE p \in s.participants :
     p.group_id = Some(group_id) /\ p.athlete_id = athlete_id).participant_id

liftcontrol_import_lift(s, group_id, athlete_id, movement, movement_results, athlete_info) ==
  Let(map_movement(movement.name), LAMBDA canonical_movement :
    IF canonical_movement = None THEN [ ok |-> FALSE, s |-> s ]
    ELSE
      Let(as_str(Unwrap(canonical_movement)), LAMBDA movement_name :
      Let(GroupParticipantIdOf(s, group_id, athlete_id), LAMBDA participant_id :
        [ ok |-> TRUE,
          s |-> LiftControlAttempts(
                  UpsertLiftRow(s, participant_id, movement_name,
                                convert_weight(movement_results.max),
                                get_movement_settings(movement.name, athlete_info)),
                  participant_id, movement_name,
                  PresentAttempts(movement_results)) ])))

RECURSIVE LiftControlLifts(_, _, _, _, _)
LiftControlLifts(r, group_id, athlete_id, movement_list, athlete_data) ==
  IF movement_list = << >> \/ ~ r.ok THEN r
  ELSE LET movement == Head(movement_list)
           movement_results == Get(athlete_data.results, movement.id)
       IN LiftControlLifts(
            IF IsSome(movement_results)
            THEN liftcontrol_import_lift(r.s, group_id, athlete_id, movement,
                                         Unwrap(movement_results),
                                         athlete_data.athlete_info)
            ELSE r,
            group_id, athlete_id, Tail(movement_list), athlete_data)

liftcontrol_upsert_athlete(s, metadata, athlete_info, category_info) ==
  FindOrInsertAthlete(s, athlete_info.first_name, athlete_info.last_name,
                      liftcontrol_map_gender(category_info.genre),
                      metadata.default_athlete_country,
                      Some(metadata.default_athlete_nationality))

\* INSERT INTO competition_participants ... ON CONFLICT (group_id, athlete_id)
\* DO UPDATE SET bodyweight, rank, is_disqualified, disqualified_reason, ris_score
UpsertGroupParticipant(s, group_id, athlete_id, athlete_data) ==
  LET info == athlete_data.athlete_info
      rank == IF athlete_data.rank.tag = "Position" THEN Some(athlete_data.rank.p)
              ELSE None
      bodyweight == IF IsSome(info.pesee) THEN convert_weight(Unwrap(info.pesee))
                    ELSE None
      ris_score == convert_weight(athlete_data.ris)
      conflict == { p \in s.participants :
                      p.group_id = Some(group_id) /\ p.athlete_id = athlete_id }
  IN IF conflict # {}
     THEN LET old == CHOOSE p \in conflict : TRUE
              new == [ old EXCEPT !.bodyweight = bodyweight,
                                  !.rank = rank,
                                  !.is_disqualified = info.is_out,
                                  !.disqualified_reason = info.reason_out,
                                  !.ris_score = ris_score ]
          IN [ s EXCEPT !.participants = (@ \ { old }) \cup { new } ]
     ELSE [ s EXCEPT !.nextId = @ + 1,
                     !.participants = @ \cup
                       { [ participant_id |-> s.nextId,
                           competition_id |-> None,
                           category_id |-> None,
                           group_id |-> Some(group_id),
                           athlete_id |-> athlete_id,
                           bodyweight |-> bodyweight,
                           rank |-> rank,
                           is_disqualified |-> info.is_out,
                           disqualified_reason |-> info.reason_out,
                           ris_score |-> ris_score ] } ]

liftcontrol_import_athlete_performance(s, metadata, athlete_data, category_info, group_id, movements) ==
  Let(liftcontrol_upsert_athlete(s, metadata, athlete_data.athlete_info, category_info),
      LAMBDA up :
    LiftControlLifts([ ok |-> TRUE,
                       s |-> UpsertGroupParticipant(up.s, group_id, up.id, athlete_data) ],
                     group_id, up.id, SortByOrder(Values(movements)), athlete_data))

RECURSIVE LiftControlAthletes(_, _, _, _, _, _)
LiftControlAthletes(r, metadata, athletes, category_info, group_id, movements) ==
  IF athletes = << >> \/ ~ r.ok THEN r
  ELSE LiftControlAthletes(
         liftcontrol_import_athlete_performance(r.s, metadata, Head(athletes),
                                                category_info, group_id, movements),
         metadata, Tail(athletes), category_info, group_id, movements)

\* INSERT INTO competition_groups ... ON CONFLICT (competition_id, category_id,
\* name) DO UPDATE SET name
upsert_competition_group(s, competition_id, category_id, group_name) ==
  LET existing == { g \in s.competition_groups :
                      /\ g.competition_id = competition_id
                      /\ g.category_id = category_id
                      /\ g.name = group_name }
  IN IF existing # {}
     THEN [ s |-> s, id |-> (CHOOSE g \in existing : TRUE).group_id ]
     ELSE [ s |-> [ s EXCEPT !.nextId = @ + 1,
                             !.competition_groups = @ \cup
                               { [ group_id |-> s.nextId,
                                   competition_id |-> competition_id,
                                   category_id |-> category_id,
                                   name |-> group_name ] } ],
            id |-> s.nextId ]

liftcontrol_upsert_category(s, category_info) ==
  Let(liftcontrol_map_gender(category_info.genre), LAMBDA gender :
  Let(liftcontrol_parse_category_name(category_info.name), LAMBDA parsed :
  Let(FetchOptional({ c \in s.categories :
                        c.name = parsed.weight_class /\ c.gender = gender },
                    LAMBDA c : c.category_id), LAMBDA existing :
    IF IsSome(existing) THEN [ s |-> s, id |-> Unwrap(existing).category_id ]
    ELSE InsertCategory(s, parsed.weight_class, gender, None, None))))

\* one iteration of the category loop of import_competition
LiftControlCategory(r, metadata, competition_id, entry, results, order) ==
  Let(liftcontrol_upsert_category(r.s, entry.value), LAMBDA cat :
  Let(liftcontrol_parse_category_name(entry.value.name), LAMBDA parsed :
  Let(upsert_competition_group(cat.s, competition_id, cat.id, parsed.group_name),
      LAMBDA grp :
  Let(Get(results.results, entry.key), LAMBDA athletes_data :
    IF IsSome(athletes_data)
    THEN LiftControlAthletes([ ok |-> TRUE, s |-> grp.s ], metadata,
                             Values(Iterate(Unwrap(athletes_data), order.athletes)),
                             entry.value, grp.id, results.movements)
    ELSE [ ok |-> TRUE, s |-> grp.s ]))))

RECURSIVE LiftControlCategories(_, _, _, _, _, _)
LiftControlCategories(r, metadata, competition_id, todo, results, order) ==
  IF todo = << >> \/ ~ r.ok THEN r
  ELSE LiftControlCategories(
         LiftControlCategory(r, metadata, competition_id, Head(todo), results, order),
         metadata, competition_id, Tail(todo), results, order)

RECURSIVE liftcontrol_upsert_competition_movements(_, _, _)
liftcontrol_upsert_competition_movements(s, competition_id, movements) ==
  IF movements = << >> THEN [ ok |-> TRUE, s |-> s ]
  ELSE LET movement == Head(movements)
           canonical_movement == map_movement(movement.name)
       IN IF canonical_movement = None THEN [ ok |-> FALSE, s |-> s ]
          ELSE liftcontrol_upsert_competition_movements(
                 UpsertMovementRow(s, competition_id, as_str(Unwrap(canonical_movement)),
                                   TRUE, movement.order),
                 competition_id, Tail(movements))

\* transformer.rs get_or_create_federation and upsert_competition: the
\* statements of the canonical importer, fed from the metadata
liftcontrol_upsert_competition(s, base_slug, metadata) ==
  LET fed == get_or_create_federation(s,
               [ name |-> metadata.federation.name,
                 abbreviation |-> Some(metadata.federation.abbreviation),
                 country |-> Some(metadata.federation.country) ])
  IN UpsertCompetitionRow(fed.s, fed.id,
       [ name |-> metadata.name,
         slug |-> base_slug,
         status |-> "completed",
         start_date |-> metadata.start_date,
         end_date |-> metadata.end_date,
         venue |-> metadata.venue,
         city |-> metadata.city,
         country |-> metadata.country,
         number_of_judges |-> metadata.number_of_judges ])

\* import_competition up to the commit: ok and the transaction's view
import_competition(s, base_slug, metadata, api_response, order) ==
  Let(liftcontrol_upsert_competition(s, base_slug, metadata), LAMBDA comp :
    LiftControlCategories(
      liftcontrol_upsert_competition_movements(
        comp.s, comp.id,
        Values(Iterate(api_response.results.movements, order.movements))),
      metadata, comp.id,
      Iterate(api_response.results.categories, order.categories),
      api_response.results, order))

(***************************************************************************)
(* Inputs: canonical documents                                             *)
(***************************************************************************)
MaxOps == 2

FirstFreeId == 10

FederationFFForce ==
  [ name |-> "FFForce", abbreviation |-> Some("FFF"), country |-> Some("France") ]

Competition(name, slug, start_date, end_date, venue) ==
  [ name |-> name, slug |-> slug, federation |-> FederationFFForce,
    start_date |-> start_date, end_date |-> end_date,
    venue |-> venue, city |-> Some("Annecy"), country |-> "France",
    number_of_judges |-> Some(3), status |-> None ]

\* date 0 precedes every formula version, dates 1-2 fall in the first
\* version's range, dates from 3 on in the current version's
Competitions ==
  << Competition("Annecy 4 Lift", "annecy-4-lift-2025", 3, 4, Some("Gymnase")),
     Competition("Annecy 4 Lift (final)", "annecy-4-lift-2025", 1, 1, None),
     Competition("Lyon Open", "lyon-open", 2, 2, Some("Halle")),
     Competition("Coupe 2019", "coupe-2019", 0, 0, None) >>

Movement(name, order) == [ name |-> name, order |-> order, is_required |-> None ]

StandardMovements == << Movement("Squat", 1), Movement("Dips", 2) >>

Attempt(attempt_number, weight, is_successful) ==
  [ attempt_number |-> attempt_number, weight |-> weight,
    is_successful |-> is_successful,
    no_rep_reason |-> IF is_successful THEN None ELSE Some("depth") ]

Lift(movement, attempts) == [ movement |-> movement, attempts |-> attempts ]

AthleteData(first_name, last_name, gender, bodyweight, lifts) ==
  [ first_name |-> first_name, last_name |-> last_name, gender |-> gender,
    country |-> "FR", nationality |-> Some("French"), bodyweight |-> bodyweight,
    is_disqualified |-> None, disqualified_reason |-> None, lifts |-> lifts,
    reglage_dips |-> None, reglage_squat |-> Some("H3") ]

CategoryData(name, gender, weight_class_max, athletes) ==
  [ name |-> name, gender |-> gender, weight_class_min |-> None,
    weight_class_max |-> weight_class_max, athletes |-> athletes ]

SquatAllGood == Lift("Squat", << Attempt(1, 100, TRUE), Attempt(2, 110, TRUE),
                                 Attempt(3, 120, TRUE) >>)

SquatLastFailed == Lift("Squat", << Attempt(1, 100, TRUE), Attempt(2, 110, FALSE) >>)

DipsOne == Lift("Dips", << Attempt(1, 60, TRUE) >>)

DipsNoGood == Lift("Dips", << Attempt(1, 70, FALSE) >>)

BenchUnknown == Lift("Bench", << Attempt(1, 80, TRUE) >>)

jo == << "j", "o" >>

li == << "l", "i" >>

JO_ == << "J", "O", " " >>

_Li == << " ", "L", "i" >>

CategoryLists ==
  << \* scenario A: one category, one athlete, three good squats
     << CategoryData(<< "-", "7", "3" >>, "M", Some(73),
                     << AthleteData(jo, li, None, Some(70), << SquatAllGood >>) >>) >>,
     \* the same athlete under another spelling, other bodyweight and lifts
     << CategoryData(<< "-", "7", "3" >>, "M", Some(75),
                     << AthleteData(JO_, _Li, Some("M"), Some(71),
                                    << SquatLastFailed, DipsOne >>) >>) >>,
     \* one name in a men's and a women's category, no bodyweight for the second
     << CategoryData(<< "-", "7", "3" >>, "M", Some(73),
                     << AthleteData(jo, li, None, Some(69), << DipsOne >>) >>),
        CategoryData(<< "-", "6", "3" >>, "F", Some(63),
                     << AthleteData(jo, li, None, None, << DipsNoGood >>) >>) >>,
     \* two spellings of one athlete in one category
     << CategoryData(<< "-", "7", "3" >>, "M", Some(73),
                     << AthleteData(jo, li, None, Some(70), << SquatAllGood >>),
                        AthleteData(JO_, _Li, None, None, << DipsOne >>) >>) >>,
     \* a lift for a movement the document does not declare
     << CategoryData(<< "-", "7", "3" >>, "M", Some(73),
                     << AthleteData(jo, li, None, Some(70),
                                    << SquatAllGood, BenchUnknown >>) >>) >>,
     \* one or two spaces inside a first name; a first letter whose upper
     \* case form has two letters
     << CategoryData(<< "-", "7", "3" >>, "M", Some(73),
                     << AthleteData(<< "j", " ", "o" >>, li, None, Some(70), << DipsOne >>),
                        AthleteData(<< "J", " ", " ", "O" >>, li, None, Some(70),
                                    << DipsOne >>),
                        AthleteData(<< "ß", "o" >>, li, None, None, << DipsOne >>) >>) >> >>

(***************************************************************************)
(* Inputs: LiftControl sessions                                            *)
(***************************************************************************)
\* the metadata and base slug the operator configures for the competition
Metadata ==
  [ name |-> "Annecy 4 Lift",
    federation |-> [ name |-> "FFForce", abbreviation |-> "FFF", country |-> "France" ],
    start_date |-> 3, end_date |-> 4,
    venue |-> Some("Gymnase"), city |-> Some("Annecy"), country |-> Some("France"),
    number_of_judges |-> Some(3),
    default_athlete_country |-> "FR", default_athlete_nationality |-> "French" ]

SessionBaseSlug == "annecy-4-lift-2025"

Entry(key, value) == [ key |-> key, value |-> value ]

SourceMovement(id, name, order) == Entry(id, [ id |-> id, name |-> name, order |-> order ])

SourceAttempt(no_essai, charge, decision_rep) ==
  Some([ id |-> no_essai, no_essai |-> no_essai, charge |-> charge,
         decision_rep |-> decision_rep,
         justification_no_rep |-> None ])

MovementResults(movement_id, results, max) ==
  Entry(movement_id, [ results |-> results, max |-> max ])

SourceAthlete(id, first_name, last_name, pesee, results, ris, rank) ==
  Entry(id,
        [ athlete_info |-> [ id |-> id, first_name |-> first_name,
                             last_name |-> last_name, pesee |-> pesee,
                             is_out |-> FALSE, reason_out |-> None,
                             reglage_dips |-> Some("B2"), reglage_squat |-> None ],
          results |-> results, total |-> 0, ris |-> ris,
          rank |-> [ tag |-> "Position", p |-> rank ] ])

CategoryInfo(id, name, genre) == Entry(id, [ id |-> id, name |-> name, genre |-> genre ])

ApiResponse(categories, results, movements) ==
  [ contest |-> [ id |-> 39, name |-> "Dimanche matin", slug |-> "dimanche-matin-39",
                  status |-> "finished" ],
    results |-> [ categories |-> categories, results |-> results,
                  movements |-> movements ] ]

Responses ==
  << \* an open men's category, decisions given as numbers
     ApiResponse(
       << CategoryInfo(1, << "O", "p", "e", "n" >>, << "H", "o", "m", "m", "e" >>) >>,
       << Entry(1, << SourceAthlete(7, jo, li, Some(70),
                        << MovementResults(1, << SourceAttempt(1, 100, Number(111)),
                                                 SourceAttempt(2, 110, Number(0)) >>,
                                           100) >>,
                        150, 1) >>) >>,
       << SourceMovement(1, << "S", "q", "u", "a", "t" >>, 1) >>),
     \* a women's weight class; one decision is the string "111", one slot is null
     ApiResponse(
       << CategoryInfo(2, << "C", "a", "t", "é", "g", "o", "r", "i", "e", " ", "-", "6", "3", " ", "-", " ", "G", "r", "o", "u", "p", "e", " ", "B" >>, << "F", "e", "m", "m", "e" >>) >>,
       << Entry(2, << SourceAthlete(8, JO_, _Li, None,
                        << MovementResults(2, << SourceAttempt(1, 60, String(<< "1", "1", "1" >>)),
                                                 None,
                                                 SourceAttempt(3, 65, Number(111)) >>,
                                           65) >>,
                        0, 1) >>) >>,
       << SourceMovement(2, << "d", "i", "p", "s" >>, 2), SourceMovement(1, << "S", "q", "u", "a", "t" >>, 1) >>),
     \* genre "man", two judges out of three, a textual decision
     ApiResponse(
       << CategoryInfo(1, << "O", "p", "e", "n" >>, << "m", "a", "n" >>) >>,
       << Entry(1, << SourceAthlete(9, << "Z", "o" >>, li, Some(71),
                        << MovementResults(3, << SourceAttempt(1, 40, Number(101)),
                                                 SourceAttempt(2, 45, String(<< "v", "a", "l", "i", "d", "e" >>)) >>,
                                           0) >>,
                        120, 2) >>) >>,
       << SourceMovement(3, << "T", "r", "a", "c", "t", "i", "o", "n" >>, 1) >>),
     \* a movement the mapper does not know
     ApiResponse(
       << CategoryInfo(1, << "O", "p", "e", "n" >>, << "H", "o", "m", "m", "e" >>) >>,
       << Entry(1, << SourceAthlete(7, jo, li, Some(70),
                        << MovementResults(4, << SourceAttempt(1, 80, Number(111)) >>,
                                           80) >>,
                        90, 1) >>) >>,
       << SourceMovement(4, << "B", "e", "n", "c", "h" >>, 1) >>),
     \* two groups of one weight class, men and women, the same name in both
     ApiResponse(
       << CategoryInfo(1, << "O", "p", "e", "n", " ", "-", " ", "G", "r", "o", "u", "p", "e", " ", "A" >>, << "H", "o", "m", "m", "e" >>),
          CategoryInfo(2, << "O", "p", "e", "n", " ", "-", " ", "G", "r", "o", "u", "p", "e", " ", "B" >>, << "F", "e", "m", "m", "e" >>) >>,
       << Entry(1, << SourceAthlete(7, jo, li, Some(70),
                        << MovementResults(1, << SourceAttempt(1, 100, Number(110)) >>,
                                           100) >>,
                        150, 1) >>),
          Entry(2, << SourceAthlete(8, jo, li, Some(69),
                        << MovementResults(1, << SourceAttempt(1, 50, Number(111)) >>,
                                           50) >>,
                        110, 1) >>) >>,
       << SourceMovement(1, << "S", "q", "u", "a", "t" >>, 1) >>) >>

\* the iteration orders of the HashMaps of one conversion
Orders ==
  [ movements : BOOLEAN, categories : BOOLEAN, athletes : BOOLEAN, values : BOOLEAN ]

\* reversing a map of fewer than two entries changes nothing
OrdersOf(api_response) ==
  LET results == api_response.results
  IN { order \in Orders :
         /\ Len(results.movements) < 2 => ~ order.movements
         /\ Len(results.categories) < 2 => ~ order.categories /\ ~ order.values
         /\ (\A i \in DOMAIN results.results : Len(results.results[i].value) < 2)
              => ~ order.athletes }

RECURSIVE SetToSeq(_)
SetToSeq(set) ==
  IF set = {} THEN << >>
  ELSE LET x == CHOOSE y \in set : TRUE IN << x >> \o SetToSeq(set \ { x })

\* the canonical documents `export` can write for the sessions
ExportedDocs ==
  SetToSeq({ doc.value : doc \in { r \in { to_canonical(SessionBaseSlug, Metadata,
                                                         response, order) :
                                             response \in Range(Responses),
                                             order \in Orders } : r.ok } })

CanonicalDoc(format_version, competition, movements, categories) ==
  [ format_version |-> format_version, competition |-> competition,
    movements |-> movements, categories |-> categories ]

\* documents breaking several independent rules at once
BrokenDocs ==
  << CanonicalDoc("0.9", Competition("", "", 2, 1, None), << >>, << >>),
     CanonicalDoc("1.0.0", Competition("Lyon Open", "lyon-open", 2, 2, None),
                  << Movement("Squat", 0), Movement("Squat", 2), Movement("", 3) >>,
                  << CategoryData(<< >>, "X", None,
                       << AthleteData(<< >>, li, None, None,
                            << Lift("Bench", << >>),
                               Lift("Squat", << Attempt(4, 0 - 5, TRUE) >>) >>) >>) >>) >>

\* every category list under the first competition, the first two lists
\* under each of the other competitions
RegularDocs ==
  [ k \in DOMAIN CategoryLists |->
      CanonicalDoc("1.0.0", Competitions[1], StandardMovements, CategoryLists[k]) ]
  \o [ k \in 1..(2 * (Len(Competitions) - 1)) |->
         CanonicalDoc("1.0.0", Competitions[2 + ((k - 1) \div 2)], StandardMovements,
                      CategoryLists[((k - 1) % 2) + 1]) ]

Docs == RegularDocs \o BrokenDocs \o ExportedDocs

DocIds == DOMAIN Docs

(***************************************************************************)
(* State                                                                   *)
(***************************************************************************)
VARIABLES
  db,     \* the committed store, what every reader of the pool sees
  tx,     \* the open transaction's view of the store (equal to db when none)
  pc,     \* position of the running import: idle, movements, categories, ris, commit
  cur,    \* the running import: document, competition id, next category
  snap,   \* the committed store when the last import began
  last,   \* the last operation and its outcome
  ops,    \* number of operations started
  rc      \* the running recompute_all_ris: position, formula, rows left to write

vars == << db, tx, pc, cur, snap, last, ops, rc >>

Constants(a, k, b, v, q) == [ a |-> a, k |-> k, b |-> b, v |-> v, q |-> q ]

\* two formula versions: the first covers dates 1 and 2, the current one
\* every date from 3 on
RisFormulaVersions ==
  { [ formula_id |-> 1, year |-> 2024, effective_from |-> 1,
      effective_until |-> Some(3), is_current |-> FALSE,
      men |-> Constants(30, 60, 1, 70, 1), women |-> Constants(20, 40, 1, 70, 1) ],
    [ formula_id |-> 2, year |-> 2025, effective_from |-> 3,
      effective_until |-> None, is_current |-> TRUE,
      men |-> Constants(32, 64, 1, 70, 2), women |-> Constants(22, 44, 1, 70, 2) ] }

EmptyStore ==
  [ nextId |-> FirstFreeId,
    federations |-> {}, competitions |-> {}, competition_movements |-> {},
    categories |-> {}, competition_groups |-> {}, athletes |-> {},
    participants |-> {}, lifts |-> {}, attempts |-> {},
    ris_formula_versions |-> RisFormulaVersions, ris_scores_history |-> {} ]

NoCur == [ doc |-> 0, competition_id |-> 0, ci |-> 0 ]

NoRecompute == [ pc |-> "idle", formula |-> None, rows |-> {}, outcome |-> "none" ]

Outcome(op, doc, outcome, message, repeat) ==
  [ op |-> op, doc |-> doc, outcome |-> outcome, message |-> message,
    repeat |-> repeat ]

Init ==
  /\ db = EmptyStore
  /\ tx = EmptyStore
  /\ pc = "idle"
  /\ cur = NoCur
  /\ snap = EmptyStore
  /\ last = Outcome("none", 0, "none", << >>, FALSE)
  /\ ops = 0
  /\ rc = NoRecompute

\* dropping a sqlx Transaction without commit discards its writes
RollbackKeepsWrites(committed, working) == working

Rollback(committed, working) == committed

(***************************************************************************)
(* handle_canonical_import / process_canonical_file                        *)
(***************************************************************************)
\* validation fails: the error is returned before any connection is used
CanonicalReject(d) ==
  /\ pc = "idle"
  /\ ops < MaxOps
  /\ \E result \in { validate(Docs[d]) } :
       /\ ~ result.ok
       /\ last' = Outcome("canonical", d, "err", result.message, FALSE)
  /\ snap' = db
  /\ ops' = ops + 1
  /\ UNCHANGED << db, tx, pc, cur, rc >>

\* validation passes; import_to_database begins and upserts the competition
CanonicalBegin(d) ==
  /\ pc = "idle"
  /\ ops < MaxOps
  /\ \E canonical \in { Docs[d] } :
       /\ validate(canonical).ok
       /\ \E up \in { upsert_competition(db, canonical.competition) } :
            /\ tx' = up.s
            /\ cur' = [ doc |-> d, competition_id |-> up.id, ci |-> 1 ]
  /\ pc' = "movements"
  /\ snap' = db
  /\ last' = Outcome("canonical", d, "running", << >>,
                     last.op = "canonical" /\ last.outcome = "ok" /\ last.doc = d)
  /\ ops' = ops + 1
  /\ UNCHANGED << db, rc >>

ImportMovements ==
  /\ pc = "movements"
  /\ tx' = upsert_competition_movements(tx, cur.competition_id, Docs[cur.doc].movements)
  /\ pc' = "categories"
  /\ UNCHANGED << db, cur, snap, last, ops, rc >>

ImportCategoryStep ==
  /\ pc = "categories"
  /\ \E categories \in { Docs[cur.doc].categories } :
       /\ cur.ci <= Len(categories)
       /\ tx' = ImportCategory(tx, categories[cur.ci], cur.competition_id)
  /\ cur' = [ cur EXCEPT !.ci = @ + 1 ]
  /\ UNCHANGED << db, pc, snap, last, ops, rc >>

ImportCategoriesDone ==
  /\ pc = "categories"
  /\ cur.ci > Len(Docs[cur.doc].categories)
  /\ pc' = "ris"
  /\ UNCHANGED << db, tx, cur, snap, last, ops, rc >>

\* compute_ris_for_competition succeeds
ImportRis ==
  /\ pc = "ris"
  /\ \E r \in { compute_ris_for_competition(tx, cur.competition_id,
                                            Docs[cur.doc].competition.start_date, db) } :
       /\ r.ok
       /\ tx' = r.s
  /\ pc' = "commit"
  /\ UNCHANGED << db, cur, snap, last, ops, rc >>

\* no formula version covers the competition's start date
ImportRisFails ==
  /\ pc = "ris"
  /\ ~ compute_ris_for_competition(tx, cur.competition_id,
                                   Docs[cur.doc].competition.start_date, db).ok
  /\ db' = Rollback(db, tx)
  /\ tx' = db'
  /\ pc' = "idle"
  /\ cur' = NoCur
  /\ last' = [ last EXCEPT !.outcome = "err",
                           !.message = << "No RIS formula available for date" >> ]
  /\ UNCHANGED << snap, ops, rc >>

ImportCommit ==
  /\ pc = "commit"
  /\ db' = tx
  /\ tx' = tx
  /\ pc' = "idle"
  /\ cur' = NoCur
  /\ last' = [ last EXCEPT !.outcome = "ok" ]
  /\ UNCHANGED << snap, ops, rc >>

\* any statement of the transaction may fail (constraint violation, lost
\* connection): the error propagates with ? and the transaction is dropped
ImportStatementFails ==
  /\ pc \in { "movements", "categories", "ris", "commit" }
  /\ db' = Rollback(db, tx)
  /\ tx' = db'
  /\ pc' = "idle"
  /\ cur' = NoCur
  /\ last' = [ last EXCEPT !.outcome = "err", !.message = << "Database error" >> ]
  /\ UNCHANGED << snap, ops, rc >>

(***************************************************************************)
(* AthleteRepository (web API), run through the pool outside any           *)
(* transaction                                                             *)
(***************************************************************************)
CreateAthleteRequest(first_name, last_name, gender) ==
  [ first_name |-> first_name, last_name |-> last_name, gender |-> gender,
    nationality |-> None, country |-> "FR" ]

CreateRequests ==
  { CreateAthleteRequest(<< "J", "o" >>, << "L", "i" >>, "M"),
    CreateAthleteRequest(<< "j", "o" >>, << "l", "i", "-", "2" >>, "F"),
    CreateAthleteRequest(<< "!" >>, << "?" >>, "M") }

UpdateAthleteRequest(first_name, last_name, country) ==
  [ first_name |-> first_name, last_name |-> last_name, country |-> country ]

UpdateRequests ==
  { UpdateAthleteRequest(None, None, None),
    UpdateAthleteRequest(None, None, Some("BE")),
    UpdateAthleteRequest(Some(<< "J", "o" >>), None, None),
    UpdateAthleteRequest(Some(<< "Z", "o" >>), Some(<< "L", "i" >>), None) }

\* AthleteRepository::create
create(s, req) ==
  InsertAthlete(s, req.first_name, req.last_name, req.gender, req.country,
                req.nationality,
                generate_unique_slug(req.first_name, req.last_name, TakenSlugs(s)).slug).s

\* AthleteRepository::update: a request that carries a first or last name
\* regenerates the slug and appends the previous one to slug_history
update(s, existing, req) ==
  LET first_name == UnwrapOr(req.first_name, existing.first_name)
      last_name == UnwrapOr(req.last_name, existing.last_name)
      renamed == IsSome(req.first_name) \/ IsSome(req.last_name)
      new == [ existing EXCEPT
                 !.first_name = first_name,
                 !.last_name = last_name,
                 !.country = UnwrapOr(req.country, existing.country),
                 !.slug = IF renamed
                          THEN generate_unique_slug(first_name, last_name,
                                                    TakenSlugs(s)).slug
                          ELSE existing.slug,
                 !.slug_history = IF renamed
                                  THEN Append(existing.slug_history, existing.slug)
                                  ELSE existing.slug_history ]
  IN [ s EXCEPT !.athletes = (@ \ { existing }) \cup { new } ]

\* POST /api/athletes
AthleteCreate(req) ==
  /\ pc = "idle"
  /\ ops < MaxOps
  /\ db' = create(db, req)
  /\ tx' = db'
  /\ last' = Outcome("create", 0, "ok", << >>, FALSE)
  /\ ops' = ops + 1
  /\ UNCHANGED << pc, cur, snap, rc >>

\* PUT /api/athletes/{slug}: the handler loads the row, then updates it
AthleteUpdate(existing, req) ==
  /\ pc = "idle"
  /\ ops < MaxOps
  /\ existing \in db.athletes
  /\ db' = update(db, existing, req)
  /\ tx' = db'
  /\ last' = Outcome("update", 0, "ok", << >>, FALSE)
  /\ ops' = ops + 1
  /\ UNCHANGED << pc, cur, snap, rc >>

(***************************************************************************)
(* LiftControlImporter::import: one session fetched and imported in its    *)
(* own transaction                                                         *)
(***************************************************************************)
DirectImport(i, order) ==
  /\ pc = "idle"
  /\ ops < MaxOps
  /\ \E r \in { import_competition(db, SessionBaseSlug, Metadata, Responses[i], order) } :
       /\ db' = IF r.ok THEN r.s ELSE Rollback(db, r.s)
       /\ last' = Outcome("direct", i, IF r.ok THEN "ok" ELSE "err",
                          IF r.ok THEN << >> ELSE << "Unknown movement" >>, FALSE)
  /\ tx' = db'
  /\ snap' = db
  /\ ops' = ops + 1
  /\ UNCHANGED << pc, cur, rc >>

Next ==
  \/ \E d \in DocIds : CanonicalReject(d)
  \/ \E d \in DocIds : CanonicalBegin(d)
  \/ ImportMovements
  \/ ImportCategoryStep
  \/ ImportCategoriesDone
  \/ ImportRis
  \/ ImportRisFails
  \/ ImportCommit
  \/ ImportStatementFails
  \/ \E req \in CreateRequests : AthleteCreate(req)
  \/ \E a \in db.athletes, req \in UpdateRequests : AthleteUpdate(a, req)
  \/ \E i \in DOMAIN Responses : \E order \in OrdersOf(Responses[i]) :
       DirectImport(i, order)

Spec == Init /\ [][Next]_vars

(***************************************************************************)
(* Properties                                                              *)
(***************************************************************************)
ImportSucceeded == pc = "idle" /\ last.op = "canonical" /\ last.outcome = "ok"

ImportFailed == pc = "idle" /\ last.op = "canonical" /\ last.outcome = "err"

C2_ImportAtomic ==
  /\ pc # "idle" => db = snap
  /\ ImportFailed => db = snap

\* an import that had written rows in its transaction has failed
C2_Witness ==
  /\ ImportFailed
  /\ last.message = << "No RIS formula available for date" >>
  /\ db.athletes # {}

\* the participants of the competition the last document names
ImportedParticipants ==
  LET comp == CHOOSE c \in db.competitions : c.slug = Docs[last.doc].competition.slug
  IN { p \in db.participants : p.competition_id = Some(comp.competition_id) }

ScoreMatchesHistory(p, formula) ==
  \E h \in db.ris_scores_history :
    /\ h.participant_id = p.participant_id
    /\ h.formula_id = formula.formula_id
    /\ p.ris_score = Some(h.ris_score)

\* C5 as stated: after a successful import every participant of the imported
\* competition with a bodyweight has the ris_score of its history row for the
\* version flagged is_current, whatever the start date
C5_ScoreMatchesCurrentFormula ==
  ImportSucceeded =>
    \A p \in ImportedParticipants :
      IsSome(p.bodyweight) =>
        ScoreMatchesHistory(p, Unwrap(get_current_formula(db.ris_formula_versions)))

EffectiveOn(formula, date) ==
  /\ formula.effective_from <= date
  /\ formula.effective_until # None => date < Unwrap(formula.effective_until)

\* C5 amended: the history row is the one of the formula version whose
\* effective range contains the imported document's competition start date
C5_ScoreMatchesFormulaForDate ==
  ImportSucceeded =>
    \A p \in ImportedParticipants :
      IsSome(p.bodyweight) =>
        \E formula \in db.ris_formula_versions :
          /\ EffectiveOn(formula, Docs[last.doc].competition.start_date)
          /\ ScoreMatchesHistory(p, formula)

\* a competition dated in the superseded version's range has been imported
C5_Witness ==
  /\ ImportSucceeded
  /\ Docs[last.doc].competition.start_date < 3
  /\ \E p \in ImportedParticipants : IsSome(p.bodyweight) /\ IsSome(p.ris_score)

\* the names the operations of the model pass to the slug generator, each
\* with its base slug
SlugNames ==
  { [ first_name |-> n[1], last_name |-> n[2], base_slug |-> BaseSlug(n[1], n[2]) ] :
      n \in { << r.first_name, r.last_name >> : r \in CreateRequests }
            \cup { << normalize_name_part(f), normalize_name_part(l) >> :
                     f \in { jo, JO_, << "ß", "o" >> }, l \in { li, _Li } } }

MinimalSuffix(base_slug, slug, taken) ==
  \E n \in 2..(Cardinality(taken) + 2) :
    /\ slug = base_slug \o << "-" >> \o IntToStr(n)
    /\ \A m \in 2..(n - 1) : (base_slug \o << "-" >> \o IntToStr(m)) \in taken

\* C6: no two athlete rows share a slug, in the committed store and in the
\* open transaction; for every name, the slug generated against the store's
\* slugs is free, is the base slug when that is free and otherwise the base
\* slug with the smallest suffix from 2 on that is free, and the loop stops
\* after at most one query per stored slug plus one
C6_SlugsUnique ==
  \A s \in { db, tx } :
    /\ \A a, b \in s.athletes : a.slug = b.slug => a.athlete_id = b.athlete_id
    /\ \A taken \in { TakenSlugs(s) } : \A name \in SlugNames :
         \A r \in { generate_unique_slug(name.first_name, name.last_name, taken) } :
           /\ r.slug \notin taken
           /\ name.base_slug \notin taken => r.slug = name.base_slug
           /\ name.base_slug \in taken => MinimalSuffix(name.base_slug, r.slug, taken)
           /\ r.queries <= Cardinality(taken) + 1

\* a base slug and its first suffix are both taken, by different athletes
C6_Witness ==
  \E a, b, c \in db.athletes :
    /\ a.slug = << "j","o","-","l","i" >>
    /\ b.slug = << "j","o","-","l","i","-","2" >>
    /\ c.slug = << "j","o","-","l","i","-","3" >>

NameChanged(a, b) == a.first_name # b.first_name \/ a.last_name # b.last_name

\* C7 as stated: an athlete's slug changes only in a step that changes its
\* first or last name, and then the previous slug is appended to slug_history;
\* slug_history never loses an entry
C7_SlugStable ==
  [][ \A a \in db.athletes : \A b \in db'.athletes :
        a.athlete_id = b.athlete_id =>
          /\ a.slug # b.slug =>
               /\ NameChanged(a, b)
               /\ b.slug_history = Append(a.slug_history, a.slug)
          /\ a.slug = b.slug => b.slug_history = a.slug_history ]_vars

\* the movement names a document's lifts use without declaring them
UnknownMovements(canonical) ==
  LET movement_names == { canonical.movements[i].name : i \in DOMAIN canonical.movements }
  IN { lift.movement :
         lift \in UNION { Range(athlete.lifts) :
                            athlete \in UNION { Range(category.athletes) :
                                                  category \in Range(canonical.categories) } } }
     \ movement_names

\* the competition of a participant row: its own column, or its group's
CompetitionOf(s, p) ==
  IF IsSome(p.competition_id) THEN Unwrap(p.competition_id)
  ELSE (CHOOSE g \in s.competition_groups : p.group_id = Some(g.group_id)).competition_id

LiftHasMovementRow(s, l) ==
  \E p \in s.participants : \E m \in s.competition_movements :
    /\ p.participant_id = l.participant_id
    /\ CompetitionOf(s, p) = m.competition_id
    /\ m.movement_name = l.movement_name

\* C10: a document with a lift for an undeclared movement never gets past
\* validation: the pipeline ends in an error whose message names that
\* movement and the store is the one before the call; and every stored lift,
\* committed or in the open transaction, has a competition_movements row of
\* its competition for its movement_name
C10_UnknownMovementRejected ==
  /\ pc # "idle" => UnknownMovements(Docs[cur.doc]) = {}
  /\ (pc = "idle" /\ last.op = "canonical"
        /\ UnknownMovements(Docs[last.doc]) # {}) =>
       /\ last.outcome = "err"
       /\ UnknownMovements(Docs[last.doc]) \subseteq Range(last.message)
       /\ db = snap
  /\ \A s \in { db, tx } : \A l \in s.lifts : LiftHasMovementRow(s, l)

\* a store that holds lifts has refused a document with an undeclared "Bench"
C10_Witness ==
  /\ ImportFailed
  /\ "Bench" \in UnknownMovements(Docs[last.doc])
  /\ "Bench" \in Range(last.message)
  /\ db.lifts # {}

\* what the two import paths are compared on: category names and genders,
\* movement names, athlete rows, attempt success flags, lift best weights
AthleteOfLift(s, l) ==
  LET p == CHOOSE q \in s.participants : q.participant_id = l.participant_id
      a == CHOOSE b \in s.athletes : b.athlete_id = p.athlete_id
  IN << a.first_name, a.last_name, a.gender >>

PathView(s) ==
  [ categories |-> { << c.name, c.gender >> : c \in s.categories },
    movements |-> { m.movement_name : m \in s.competition_movements },
    athletes |-> { << a.first_name, a.last_name, a.gender, a.country, a.slug >> :
                     a \in s.athletes },
    lifts |-> { << AthleteOfLift(s, l), l.movement_name, l.max_weight >> : l \in s.lifts },
    attempts |-> { << AthleteOfLift(s, CHOOSE l \in s.lifts : l.lift_id = a.lift_id),
                      (CHOOSE l \in s.lifts : l.lift_id = a.lift_id).movement_name,
                      a.attempt_number, a.is_successful >> : a \in s.attempts } ]

\* export, validate, import_to_database, started from store s
ExportPath(s, api_response, order) ==
  LET doc == to_canonical(SessionBaseSlug, Metadata, api_response, order)
  IN IF ~ doc.ok THEN s
     ELSE IF ~ validate(doc.value).ok THEN s
     ELSE import_to_database(s, doc.value).s

DirectImportDone == pc = "idle" /\ last.op = "direct"

\* C3 as stated: the store a direct import of a response leaves agrees, on
\* category names and genders, movement names, athlete rows, attempt success
\* flags and lift best weights, with the store the export path leaves when it
\* converts the same response from the same starting store
C3_PathsEquivalent ==
  DirectImportDone =>
    \E order \in OrdersOf(Responses[last.doc]) :
      PathView(db) = PathView(ExportPath(snap, Responses[last.doc], order))

SourceAttempts(api_response) ==
  LET athletes == UNION { Range(Values(e.value)) :
                            e \in Range(api_response.results.results) }
      results == UNION { Range(Values(a.results)) : a \in athletes }
  IN { Unwrap(slot) : slot \in { x \in UNION { Range(r.results) : r \in results } :
                                   IsSome(x) } }

\* the numeric code of a decision, when it has one
DecisionCode(decision_rep) ==
  IF decision_rep.tag = "Number" THEN Some(decision_rep.n)
  ELSE ParseNumber(decision_rep.s)

\* C4 as stated: for every decision code met in a converted response, the
\* number and the equivalent string get the same success classification on
\* the export path and on the direct path, and code 111 is successful in both
\* forms on both paths
C4_DecisionFormsAgree ==
  DirectImportDone =>
    \A attempt \in SourceAttempts(Responses[last.doc]) :
      LET code == DecisionCode(attempt.decision_rep)
      IN (IsSome(code) /\ Unwrap(code) >= 0) =>
           LET as_number == Number(Unwrap(code))
               as_string == String(IntToStr(Unwrap(code)))
           IN /\ build_attempt_successful(as_number)
                   = build_attempt_successful(as_string)
              /\ liftcontrol_attempt_success(as_number)
                   = liftcontrol_attempt_success(as_string)
              /\ Unwrap(code) = 111 =>
                   /\ build_attempt_successful(as_number)
                   /\ build_attempt_successful(as_string)
                   /\ liftcontrol_attempt_success(as_number)
                   /\ liftcontrol_attempt_success(as_string)

WithoutWhitespace(name) == SelectSeq(name, LAMBDA c : ~ IsWhitespace(c))

\* two names that differ only in letter case or whitespace
SameUpToCaseAndWhitespace(a, b) ==
  ToLowercase(WithoutWhitespace(a)) = ToLowercase(WithoutWhitespace(b))

AthletesOf(canonical) ==
  UNION { { [ athlete |-> category.athletes[i], category |-> category ] :
              i \in DOMAIN category.athletes } :
          category \in Range(canonical.categories) }

\* C8 as stated: for the athletes of an imported document, normalizing a
\* normalized name changes nothing, and two entries of one gender and country
\* whose names differ only in letter case or whitespace normalize to the same
\* pair and are stored as one athlete row
C8_NameVariantsOneAthlete ==
  ImportSucceeded =>
    \A x, y \in AthletesOf(Docs[last.doc]) :
      LET nx == NormalizedAthleteName(x.athlete.first_name, x.athlete.last_name)
          ny == NormalizedAthleteName(y.athlete.first_name, y.athlete.last_name)
      IN /\ NormalizedAthleteName(nx.first_name, nx.last_name) = nx
         /\ ( /\ SameUpToCaseAndWhitespace(x.athlete.first_name, y.athlete.first_name)
              /\ SameUpToCaseAndWhitespace(x.athlete.last_name, y.athlete.last_name)
              /\ UnwrapOr(x.athlete.gender, x.category.gender)
                   = UnwrapOr(y.athlete.gender, y.category.gender)
              /\ x.athlete.country = y.athlete.country )
            => /\ nx = ny
               /\ \E a \in db.athletes :
                    /\ << a.first_name, a.last_name >> = << nx.first_name, nx.last_name >>
                    /\ << a.first_name, a.last_name >> = << ny.first_name, ny.last_name >>

\* the entries a caller can read one by one from a failing validate: the
\* error variant holds a single String
ErrorEntries(result) == IF result.ok THEN << >> ELSE << result.message >>

\* C9 as stated: a failing validation hands back one entry per broken rule,
\* each holding that rule's message
C9_AllErrorsListed ==
  (ImportFailed /\ ~ validate(Docs[last.doc]).ok) =>
    LET entries == ErrorEntries(validate(Docs[last.doc]))
        errors == ReportErrors(Docs[last.doc])
    IN /\ Len(entries) = Len(errors)
       /\ \A i \in DOMAIN errors : Contains(entries[i], errors[i])

\* the mapper's table, label by label
MovementTable ==
  { << << "t", "r", "a", "c", "t", "i", "o", "n" >>, "PullUp" >>,
    << << "d", "i", "p", "s" >>, "Dips" >>,
    << << "m", "u", "s", "c", "l", "e", "-", "u", "p" >>, "MuscleUp" >>,
    << << "m", "u", "s", "c", "l", "e", " ", "u", "p" >>, "MuscleUp" >>,
    << << "m", "u", "s", "c", "l", "e", "u", "p" >>, "MuscleUp" >>,
    << << "s", "q", "u", "a", "t" >>, "Squat" >> }

\* the movement labels of a response
LabelsOf(api_response) ==
  { m.value.name : m \in Range(api_response.results.movements) }

\* labels the mapper is asked about: those of the responses, and variants of
\* the table's labels in case, spacing, plural and canonical spelling
MovementLabels ==
  UNION { LabelsOf(Responses[i]) : i \in DOMAIN Responses }
    \cup { << "S", "Q", "U", "A", "T" >>, << "s", "q", "u", "a", "t", "s" >>,
           << " ", "s", "q", "u", "a", "t" >>, << "T", "r", "a", "c", "t", "i", "o", "n" >>,
           << "M", "u", "s", "c", "l", "e", " ", "U", "p" >>,
           << "M", "u", "s", "c", "l", "e", "-", "U", "P" >>,
           << "m", "u", "s", "c", "l", "e", "_", "u", "p" >>,
           << "P", "u", "l", "l", "-", "u", "p" >>, << "D", "I", "P", "S" >>,
           << "d", "i", "p" >>, << >> }

\* the labels of a response the mapper does not know
UnmappedLabels(api_response) ==
  { name \in LabelsOf(api_response) : map_movement(name) = None }

\* C11: map_movement answers with the table's movement exactly for the labels
\* whose lowercase form is a label of the table and with None for every other
\* label; a response holding a label mapped to None fails in to_canonical
\* and in import_competition, and the direct import leaves the store as it was
C11_UnknownMovementFailsClosed ==
  /\ \A name \in MovementLabels :
       /\ \A entry \in MovementTable :
            ToLowercase(name) = entry[1] => map_movement(name) = Some(entry[2])
       /\ (\A entry \in MovementTable : ToLowercase(name) # entry[1])
            => map_movement(name) = None
  /\ (DirectImportDone /\ UnmappedLabels(Responses[last.doc]) # {}) =>
       /\ last.outcome = "err"
       /\ "Unknown movement" \in Range(last.message)
       /\ db = snap
       /\ \A order \in OrdersOf(Responses[last.doc]) :
            ~ to_canonical(SessionBaseSlug, Metadata, Responses[last.doc], order).ok

\* a store that holds lifts has refused the direct import of a response with
\* the label "Bench"
C11_Witness ==
  /\ DirectImportDone
  /\ << "B", "e", "n", "c", "h" >> \in UnmappedLabels(Responses[last.doc])
  /\ last.outcome = "err"
  /\ db.lifts # {}
  /\ db = snap

(***************************************************************************)
(* Canonical imports alone: the store is reached by handle_canonical_import *)
(* runs only, one after another.                                           *)
(***************************************************************************)
NextCanonical ==
  \/ \E d \in DocIds : CanonicalReject(d)
  \/ \E d \in DocIds : CanonicalBegin(d)
  \/ ImportMovements \/ ImportCategoryStep \/ ImportCategoriesDone
  \/ ImportRis \/ ImportRisFails \/ ImportCommit \/ ImportStatementFails

SpecCanonical == Init /\ [][NextCanonical]_vars

\* the attempts rows of a lift that are flagged successful
SuccessfulStored(s, l) ==
  { a \in s.attempts : a.lift_id = l.lift_id /\ a.is_successful }

\* the best weight among the stored successful attempts of a lift, if any
BestStored(s, l) ==
  IF SuccessfulStored(s, l) = {} THEN None
  ELSE MaxBy(SuccessfulStored(s, l), LAMBDA a : Unwrap(a.weight)).weight

\* C12 as stated: between canonical imports every lift row's max_weight is the
\* best weight among the lift's stored successful attempts, and is absent
\* when the lift has no stored successful attempt
C12_MaxWeightMatchesStoredAttempts ==
  pc = "idle" => \A l \in db.lifts : l.max_weight = BestStored(db, l)

(***************************************************************************)
(* The ranking query                                                       *)
(***************************************************************************)
\* dto::common::PaginationParams
PaginationParams(page, page_size) == [ page |-> page, page_size |-> page_size ]

\* PaginationParams::offset
offset(pagination) == (pagination.page - 1) * pagination.page_size

\* PaginationParams::limit
limit(pagination) == pagination.page_size

\* dto::ranking::GlobalRankingFilter
GlobalRankingFilter(pagination, gender, country, movement) ==
  [ pagination |-> pagination, gender |-> gender, country |-> country,
    movement |-> movement ]

\* dto::ranking::Movement as the text the repository matches on
as_column(movement) ==
  CASE movement = "Muscleup" -> "muscleup"
    [] movement = "Pullup" -> "pullup"
    [] movement = "Dips" -> "dips"
    [] movement = "Squat" -> "squat"
    [] OTHER -> "total"

\* get_all_movements_ranking: let sort_field = match ...
sort_field(filter) ==
  IF as_column(filter.movement) \in { "muscleup", "pullup", "dips", "squat" }
  THEN as_column(filter.movement)
  ELSE "total"

\* WHERE a.gender = $1 AND a.country = $2, in the arm the filter selects
FilterMatches(filter, a) ==
  /\ filter.gender # None => a.gender = Unwrap(filter.gender)
  /\ filter.country # None => a.country = Unwrap(filter.country)

\* SELECT COUNT(DISTINCT cp.participant_id): athletes are joined only in the
\* arms that filter on them
CountedParticipants(s, filter) ==
  { cp \in s.participants :
      /\ \E l \in s.lifts : l.participant_id = cp.participant_id
      /\ (filter.gender # None \/ filter.country # None) =>
           \E a \in s.athletes : a.athlete_id = cp.athlete_id /\ FilterMatches(filter, a) }

\* MAX(CASE WHEN l.movement_name = name THEN l.max_weight ELSE 0 END): NULLs
\* are skipped, and the result is NULL when nothing is left
MaxCase(s, participant_id, name) ==
  LET values == { IF l.movement_name = name THEN l.max_weight ELSE Some(0) :
                    l \in { x \in s.lifts : x.participant_id = participant_id } } \ { None }
  IN IF values = {} THEN None
     ELSE Some(Unwrap(MaxBy(values, LAMBDA v : Unwrap(v))))

\* SUM(l.max_weight): NULLs are skipped, and the result is NULL when nothing is left
SumMaxWeight(s, participant_id) ==
  LET rows == { l \in s.lifts : l.participant_id = participant_id /\ l.max_weight # None }
  IN IF rows = {} THEN None
     ELSE Some(SumOver(rows, LAMBDA l : Unwrap(l.max_weight)))

\* WITH movement_weights AS (...): one row per participant that joins an
\* athlete, a group, the group's competition and at least one lift
movement_weights(s, filter) ==
  { [ participant_id |-> cp.participant_id,
      athlete_id |-> a.athlete_id, first_name |-> a.first_name,
      last_name |-> a.last_name, slug |-> a.slug, country |-> a.country,
      gender |-> a.gender,
      competition_id |-> c.competition_id, competition_name |-> c.name,
      start_date |-> c.start_date,
      muscleup |-> MaxCase(s, cp.participant_id, "muscleup"),
      pullup |-> MaxCase(s, cp.participant_id, "pullup"),
      dips |-> MaxCase(s, cp.participant_id, "dips"),
      squat |-> MaxCase(s, cp.participant_id, "squat"),
      total |-> SumMaxWeight(s, cp.participant_id) ] :
      << cp, a, cg, c >> \in
        { q \in s.participants \X s.athletes \X s.competition_groups \X s.competitions :
            /\ q[1].athlete_id = q[2].athlete_id
            /\ q[1].group_id = Some(q[3].group_id)
            /\ q[3].competition_id = q[4].competition_id
            /\ \E l \in s.lifts : l.participant_id = q[1].participant_id
            /\ FilterMatches(filter, q[2]) } }

\* ORDER BY sort_field DESC: NULL sorts before every value, and rows with
\* equal keys come in an order the query does not fix (ties: by ascending
\* or by descending position in the table)
ComesFirst(x, y, field, ties) ==
  IF x[field] = y[field]
  THEN IF ties THEN x.participant_id < y.participant_id
       ELSE x.participant_id > y.participant_id
  ELSE \/ x[field] = None
       \/ y[field] # None /\ Unwrap(x[field]) > Unwrap(y[field])

RECURSIVE OrderByDesc(_, _, _)
OrderByDesc(rows, field, ties) ==
  IF rows = {} THEN << >>
  ELSE LET first == CHOOSE x \in rows :
                      \A y \in rows \ { x } : ComesFirst(x, y, field, ties)
       IN << first >> \o OrderByDesc(rows \ { first }, field, ties)

\* decimal_to_f64(row.get(..)): reading NULL as a Decimal fails
Decodes(row) ==
  \A field \in { "total", "muscleup", "pullup", "dips", "squat" } : row[field] # None

\* the GlobalRankingEntry built from the row at position n of the ordered
\* rows: rank is ROW_NUMBER() plus the offset
GlobalRankingEntry(row, n, off) ==
  [ rank |-> n + off,
    athlete |-> [ athlete_id |-> row.athlete_id, first_name |-> row.first_name,
                  last_name |-> row.last_name, slug |-> row.slug,
                  country |-> row.country, gender |-> row.gender ],
    total |-> Unwrap(row.total), muscleup |-> Unwrap(row.muscleup),
    pullup |-> Unwrap(row.pullup), dips |-> Unwrap(row.dips),
    squat |-> Unwrap(row.squat),
    competition |-> [ competition_id |-> row.competition_id,
                      name |-> row.competition_name, date |-> row.start_date ] ]

\* RankingRepository::get_all_movements_ranking
get_all_movements_ranking(s, filter, off, lim, ties) ==
  LET total_items == Cardinality(CountedParticipants(s, filter))
      ordered == OrderByDesc(movement_weights(s, filter), sort_field(filter), ties)
      page == { n \in DOMAIN ordered : off < n /\ n <= off + lim }
  IN IF \E n \in page : ~ Decodes(ordered[n])
     THEN [ ok |-> FALSE, entries |-> << >>, total_items |-> 0 ]
     ELSE [ ok |-> TRUE,
            entries |-> [ i \in 1..Cardinality(page) |->
                            GlobalRankingEntry(ordered[off + i], off + i, off) ],
            total_items |-> total_items ]

\* RankingRepository::get_global_ranking
get_global_ranking(s, filter, ties) ==
  get_all_movements_ranking(s, filter, offset(filter.pagination),
                            limit(filter.pagination), ties)

MaxPage == 2

MaxPageSize == 2

\* the requests the ranking is asked: every page and page size within the
\* bounds, no gender or one, no country or one, the total or one movement
RankingFilters ==
  { GlobalRankingFilter(PaginationParams(page, page_size), gender, country, movement) :
      page \in 1..MaxPage, page_size \in 1..MaxPageSize,
      gender \in { None, Some("M"), Some("F") },
      country \in { None, Some("FR") },
      movement \in { "Total", "Squat", "Dips" } }

\* the participants a filter is about: those with at least one lift whose
\* athlete has the gender and the country asked for
FilteredPopulation(s, filter) ==
  { cp \in s.participants :
      /\ \E l \in s.lifts : l.participant_id = cp.participant_id
      /\ \E a \in s.athletes :
           /\ a.athlete_id = cp.athlete_id
           /\ filter.gender \in { None, Some(a.gender) }
           /\ filter.country \in { None, Some(a.country) } }

\* the number of pages that hold total_items entries
PagesFor(total_items, page_size) == (total_items + page_size - 1) \div page_size

\* the entries of pages 1..pages of a filter, page after page, every query
\* free to order equal keys its own way
RECURSIVE PagedThrough(_, _, _, _)
PagedThrough(s, filter, pages, ties) ==
  IF pages = 0 THEN << >>
  ELSE PagedThrough(s, filter, pages - 1, ties)
         \o get_global_ranking(s, [ filter EXCEPT !.pagination.page = pages ],
                               ties[pages]).entries

\* C13 as stated: a ranking request succeeds with at most page_size entries
\* in descending order of the selected column and with the size of the
\* filtered population as total count, and paging through all the pages
\* returns that many entries, no two for the same participation
C13_RankingPagesCoverPopulation ==
  pc = "idle" =>
    \A filter \in RankingFilters :
      LET population == Cardinality(FilteredPopulation(db, filter))
          pages == PagesFor(population, filter.pagination.page_size)
      IN /\ \A ties \in BOOLEAN :
              LET r == get_global_ranking(db, filter, ties)
              IN /\ r.ok
                 /\ Len(r.entries) <= filter.pagination.page_size
                 /\ r.total_items = population
                 /\ \A i, j \in DOMAIN r.entries :
                      i < j => r.entries[i][sort_field(filter)]
                                 >= r.entries[j][sort_field(filter)]
         /\ filter.pagination.page = 1 =>
              \A ties \in [ 1..pages -> BOOLEAN ] :
                LET all == PagedThrough(db, filter, pages, ties)
                IN /\ Len(all) = population
                   /\ \A i, j \in DOMAIN all :
                        i # j => << all[i].athlete.athlete_id, all[i].competition.competition_id >>
                                   # << all[j].athlete.athlete_id, all[j].competition.competition_id >>

\* the best weight stored for a participant and a canonical movement name,
\* 0 when the participant has no lift for it or the lift holds no weight
StoredBest(s, participant_id, movement_name) ==
  LET rows == { l \in s.lifts : /\ l.participant_id = participant_id
                                /\ l.movement_name = movement_name
                                /\ l.max_weight # None }
  IN IF rows = {} THEN 0 ELSE Unwrap(MaxBy(rows, LAMBDA l : Unwrap(l.max_weight)).max_weight)

\* C14 as stated: the ranking entry of a stored participant with a lift has
\* as muscleup, pullup, dips and squat the max_weight of the
\* participant's Muscle-up, Pull-up, Dips and Squat lifts (0 without one) and
\* as total the sum over the participant's lifts
C14_RankingReadsImportedLifts ==
  pc = "idle" =>
    \A cp \in { p \in db.participants : \E l \in db.lifts : l.participant_id = p.participant_id } :
      \A ties \in BOOLEAN :
        LET r == get_global_ranking(db, GlobalRankingFilter(PaginationParams(1, 100),
                                                            None, None, "Total"), ties)
        IN \A i \in DOMAIN r.entries :
             ( /\ r.entries[i].athlete.athlete_id = cp.athlete_id
               /\ r.entries[i].competition.competition_id = CompetitionOf(db, cp) ) =>
                /\ r.entries[i].muscleup = StoredBest(db, cp.participant_id, as_str("MuscleUp"))
                /\ r.entries[i].pullup = StoredBest(db, cp.participant_id, as_str("PullUp"))
                /\ r.entries[i].dips = StoredBest(db, cp.participant_id, as_str("Dips"))
                /\ r.entries[i].squat = StoredBest(db, cp.participant_id, as_str("Squat"))
                /\ r.entries[i].total =
                     SumOver({ l \in db.lifts : l.participant_id = cp.participant_id },
                             LAMBDA l : UnwrapOr(l.max_weight, 0))

(***************************************************************************)
(* Recomputing every score                                                 *)
(***************************************************************************)
\* RisRepository::get_formula_by_id
get_formula_by_id(formulas, formula_id) ==
  FetchOptional({ f \in formulas : f.formula_id = formula_id }, LAMBDA f : f.formula_id)

\* RisRepository::upsert_ris_score
upsert_ris_score(s, participant_id, formula_id, ris_score, bodyweight, total_weight) ==
  LET conflict == { h \in s.ris_scores_history :
                      h.participant_id = participant_id /\ h.formula_id = formula_id }
  IN [ s EXCEPT !.ris_scores_history =
         (@ \ conflict) \cup { [ participant_id |-> participant_id,
                                 formula_id |-> formula_id,
                                 ris_score |-> ris_score,
                                 bodyweight |-> bodyweight,
                                 total_weight |-> total_weight ] } ]

\* an update that reaches no row
update_participant_current_ris_Skip(s, participant_id, ris_score) == s

\* RisRepository::update_participant_current_ris
update_participant_current_ris(s, participant_id, ris_score) ==
  [ s EXCEPT !.participants =
      { IF p.participant_id = participant_id
        THEN [ p EXCEPT !.ris_score = Some(ris_score) ] ELSE p : p \in @ } ]

\* recompute_all_ris: the participants query, one row per participant with
\* a bodyweight and an athlete, total = COALESCE(SUM(l.max_weight), 0)
RecomputeRows(s) ==
  { [ participant_id |-> cp.participant_id, bodyweight |-> cp.bodyweight,
      gender |-> (CHOOSE a \in s.athletes : a.athlete_id = cp.athlete_id).gender,
      total |-> LiftTotal(s, cp.participant_id) ] :
      cp \in { p \in s.participants :
                 /\ p.bodyweight # None
                 /\ \E a \in s.athletes : a.athlete_id = p.athlete_id } }

\* recompute_all_ris: the body of the loop for one row of the query
RecomputeOne(s, participant, formula) ==
  Let(compute_ris(Unwrap(participant.bodyweight), participant.total,
                  participant.gender, formula), LAMBDA ris_score :
    update_participant_current_ris(
      upsert_ris_score(s, participant.participant_id, formula.formula_id, ris_score,
                       Unwrap(participant.bodyweight), participant.total),
      participant.participant_id, ris_score))

RECURSIVE RecomputeLoop(_, _, _)
RecomputeLoop(s, participants, formula) ==
  IF participants = {} THEN s
  ELSE LET participant == MinBy(participants, LAMBDA x : x.participant_id)
       IN RecomputeLoop(RecomputeOne(s, participant, formula),
                        participants \ { participant }, formula)

\* recompute_all_ris, run with nothing else touching the store
recompute_all_ris(s, formula_id) ==
  Let(IF formula_id # None
      THEN get_formula_by_id(s.ris_formula_versions, Unwrap(formula_id))
      ELSE get_current_formula(s.ris_formula_versions), LAMBDA formula :
    IF formula = None THEN [ ok |-> FALSE, s |-> s, count |-> 0 ]
    ELSE [ ok |-> TRUE,
           s |-> RecomputeLoop(s, RecomputeRows(s), Unwrap(formula)),
           count |-> Cardinality(RecomputeRows(s)) ])

\* the formula ids recompute_all_ris is called with: none, each stored
\* version, and one that is not stored
FormulaIds == { None, Some(1), Some(2), Some(3) }

Recompute(formula_id) ==
  /\ pc = "idle"
  /\ ops < MaxOps
  /\ \E r \in { recompute_all_ris(db, formula_id) } :
       /\ db' = r.s
       /\ last' = [ op |-> "recompute", doc |-> 0,
                    outcome |-> IF r.ok THEN "ok" ELSE "err",
                    message |-> IF r.ok THEN << >> ELSE << "NotFound" >>,
                    repeat |-> FALSE, formula_id |-> formula_id, count |-> r.count ]
  /\ tx' = db'
  /\ snap' = db
  /\ ops' = ops + 1
  /\ UNCHANGED << pc, cur, rc >>

NextRis ==
  \/ \E d \in DocIds : CanonicalReject(d)
  \/ \E d \in DocIds : CanonicalBegin(d)
  \/ ImportMovements \/ ImportCategoryStep \/ ImportCategoriesDone
  \/ ImportRis \/ ImportRisFails \/ ImportCommit \/ ImportStatementFails
  \/ \E i \in DOMAIN Responses : \E order \in OrdersOf(Responses[i]) : DirectImport(i, order)
  \/ \E formula_id \in FormulaIds : Recompute(formula_id)

SpecRis == Init /\ [][NextRis]_vars

RecomputeDone == pc = "idle" /\ last.op = "recompute"

\* the formula version a finished recompute was to use
FormulaUsed ==
  IF last.formula_id # None
  THEN get_formula_by_id(snap.ris_formula_versions, Unwrap(last.formula_id))
  ELSE get_current_formula(snap.ris_formula_versions)

\* C15: recompute_all_ris fails without a write when the formula version does
\* not exist; otherwise every participant with a bodyweight has as ris_score,
\* and in its one history row for the formula used, compute_ris of its
\* bodyweight, the sum of its lifts' max_weight and its athlete's gender; the
\* count returned is the number of these participants; participants without
\* bodyweight, history rows of other versions and all other tables are as before
C15_RecomputeScoresEveryone ==
  RecomputeDone =>
    IF FormulaUsed = None THEN last.outcome = "err" /\ db = snap
    ELSE /\ last.outcome = "ok"
         /\ \A p \in db.participants :
              IF p.bodyweight = None THEN p \in snap.participants
              ELSE LET score == compute_ris(Unwrap(p.bodyweight),
                                            LiftTotal(db, p.participant_id),
                                            (CHOOSE a \in db.athletes :
                                               a.athlete_id = p.athlete_id).gender,
                                            Unwrap(FormulaUsed))
                   IN /\ p.ris_score = Some(score)
                      /\ { h.ris_score : h \in { x \in db.ris_scores_history :
                             /\ x.participant_id = p.participant_id
                             /\ x.formula_id = Unwrap(FormulaUsed).formula_id } } = { score }
         /\ last.count = Cardinality({ p \in db.participants : p.bodyweight # None })
         /\ { h \in db.ris_scores_history : h.formula_id # Unwrap(FormulaUsed).formula_id }
              = { h \in snap.ris_scores_history : h.formula_id # Unwrap(FormulaUsed).formula_id }
         /\ { p.participant_id : p \in db.participants }
              = { p.participant_id : p \in snap.participants }
         /\ [ db EXCEPT !.participants = {}, !.ris_scores_history = {} ]
              = [ snap EXCEPT !.participants = {}, !.ris_scores_history = {} ]

\* a recompute under the superseded version has rescored a participant that
\* an import had scored under the current one, next to a participant
\* without bodyweight
C15_Witness ==
  /\ RecomputeDone
  /\ last.outcome = "ok"
  /\ last.formula_id = Some(1)
  /\ last.count > 0
  /\ \E p \in db.participants : p.bodyweight = None
  /\ \E p \in db.participants : \E q \in snap.participants :
       /\ p.participant_id = q.participant_id
       /\ q.ris_score # None
       /\ p.ris_score # q.ris_score
  /\ \E h \in db.ris_scores_history : h.formula_id = 2

(***************************************************************************)
(* recompute_all_ris next to a running import.  Every statement of the     *)
(* recompute runs on the pool and commits on its own; the import's         *)
(* statements run in its transaction.  Under READ COMMITTED the            *)
(* transaction sees what others committed in rows it has not written, and  *)
(* a write to a row the transaction has written waits for its end.         *)
(***************************************************************************)
\* the import's transaction holds a version of the participant row, or of
\* its history row for the formula, that is not committed
Locked(participant_id, formula_id) ==
  /\ pc # "idle"
  /\ \/ { p \in tx.participants : p.participant_id = participant_id }
          # { p \in db.participants : p.participant_id = participant_id }
     \/ { h \in tx.ris_scores_history :
            h.participant_id = participant_id /\ h.formula_id = formula_id }
          # { h \in db.ris_scores_history :
                h.participant_id = participant_id /\ h.formula_id = formula_id }

\* let formula = ...: the version is read first; NotFound ends the call
RecomputeStart(formula_id) ==
  /\ rc.pc = "idle"
  /\ ops < MaxOps
  /\ \E formula \in { IF formula_id # None
                      THEN get_formula_by_id(db.ris_formula_versions, Unwrap(formula_id))
                      ELSE get_current_formula(db.ris_formula_versions) } :
       rc' = IF formula = None
             THEN [ rc EXCEPT !.pc = "done", !.outcome = "err" ]
             ELSE [ rc EXCEPT !.pc = "select", !.formula = formula ]
  /\ ops' = ops + 1
  /\ UNCHANGED << db, tx, pc, cur, snap, last >>

\* the participants query reads the committed rows
RecomputeSelect ==
  /\ rc.pc = "select"
  /\ rc' = [ rc EXCEPT !.pc = "loop", !.rows = RecomputeRows(db) ]
  /\ UNCHANGED << db, tx, pc, cur, snap, last, ops >>

\* one turn of the loop: upsert_ris_score, then update_participant_current_ris,
\* for the next row of the query result
RecomputeWrite ==
  /\ rc.pc = "loop"
  /\ rc.rows # {}
  /\ \E participant \in { MinBy(rc.rows, LAMBDA x : x.participant_id) } :
       /\ ~ Locked(participant.participant_id, Unwrap(rc.formula).formula_id)
       /\ db' = RecomputeOne(db, participant, Unwrap(rc.formula))
       /\ tx' = RecomputeOne(tx, participant, Unwrap(rc.formula))
       /\ rc' = [ rc EXCEPT !.rows = @ \ { participant } ]
  /\ UNCHANGED << pc, cur, snap, last, ops >>

\* Ok(count)
RecomputeReturn ==
  /\ rc.pc = "loop"
  /\ rc.rows = {}
  /\ rc' = [ rc EXCEPT !.pc = "done", !.outcome = "ok" ]
  /\ UNCHANGED << db, tx, pc, cur, snap, last, ops >>

\* the stores the two operations start from: one earlier import has committed
StartStores == { import_to_database(EmptyStore, Docs[d]).s : d \in 1..2 }

InitConcurrent ==
  /\ db \in StartStores
  /\ tx = db
  /\ pc = "idle"
  /\ cur = NoCur
  /\ snap = db
  /\ last = Outcome("none", 0, "none", << >>, FALSE)
  /\ ops = 0
  /\ rc = NoRecompute

NextConcurrent ==
  \/ \E d \in DocIds : CanonicalReject(d)
  \/ \E d \in DocIds : CanonicalBegin(d)
  \/ ImportMovements \/ ImportCategoryStep \/ ImportCategoriesDone
  \/ ImportRis \/ ImportRisFails \/ ImportCommit \/ ImportStatementFails
  \/ \E formula_id \in FormulaIds : RecomputeStart(formula_id)
  \/ RecomputeSelect \/ RecomputeWrite \/ RecomputeReturn

SpecConcurrent == InitConcurrent /\ [][NextConcurrent]_vars

\* the versions a stored score of a participant may have been computed with:
\* the version the recompute used and the version of the competition's date
FormulasFor(p) ==
  { f \in db.ris_formula_versions :
      \/ Some(f) = rc.formula
      \/ \E c \in db.competitions :
           /\ p.competition_id = Some(c.competition_id)
           /\ Some(f) = get_formula_for_date(db.ris_formula_versions, c.start_date) }

\* C16 as stated: once a recompute and the imports running next to it have
\* finished, the ris_score of every participant with a bodyweight is
\* compute_ris of its stored bodyweight and stored lift total under a
\* version that was used for it
C16_ConcurrentScoresConsistent ==
  (rc.pc = "done" /\ rc.outcome = "ok" /\ pc = "idle") =>
    \A p \in { x \in db.participants : x.bodyweight # None } :
      \E f \in FormulasFor(p) :
        p.ris_score = Some(compute_ris(Unwrap(p.bodyweight),
                                       LiftTotal(db, p.participant_id),
                                       (CHOOSE a \in db.athletes :
                                          a.athlete_id = p.athlete_id).gender, f))

(***************************************************************************)
(* Looking up the formula version of a date                                *)
(***************************************************************************)
\* the versions a ris_formula_versions table is filled from: ranges that
\* follow each other, overlap, are empty or open, and two versions
\* effective from the same day
CandidateVersions ==
  { [ formula_id |-> 1, year |-> 2024, effective_from |-> 1, effective_until |-> Some(3),
      is_current |-> FALSE, men |-> Constants(30, 60, 1, 70, 1),
      women |-> Constants(20, 40, 1, 70, 1) ],
    [ formula_id |-> 2, year |-> 2025, effective_from |-> 3, effective_until |-> None,
      is_current |-> TRUE, men |-> Constants(32, 64, 1, 70, 2),
      women |-> Constants(22, 44, 1, 70, 2) ],
    [ formula_id |-> 3, year |-> 2026, effective_from |-> 2, effective_until |-> Some(5),
      is_current |-> FALSE, men |-> Constants(30, 60, 1, 70, 1),
      women |-> Constants(20, 40, 1, 70, 1) ],
    [ formula_id |-> 4, year |-> 2027, effective_from |-> 4, effective_until |-> Some(4),
      is_current |-> FALSE, men |-> Constants(30, 60, 1, 70, 1),
      women |-> Constants(20, 40, 1, 70, 1) ],
    [ formula_id |-> 5, year |-> 2028, effective_from |-> 6, effective_until |-> Some(7),
      is_current |-> FALSE, men |-> Constants(30, 60, 1, 70, 1),
      women |-> Constants(20, 40, 1, 70, 1) ],
    [ formula_id |-> 6, year |-> 2029, effective_from |-> 6, effective_until |-> None,
      is_current |-> FALSE, men |-> Constants(32, 64, 1, 70, 2),
      women |-> Constants(22, 44, 1, 70, 2) ] }

\* the dates asked for: before, on and after every boundary
MaxDate == 8

LookupDates == 0..MaxDate

InitFormula ==
  /\ \E table \in SUBSET CandidateVersions :
       db = [ EmptyStore EXCEPT !.ris_formula_versions = table ]
  /\ tx = db
  /\ pc = "idle"
  /\ cur = NoCur
  /\ snap = db
  /\ last = Outcome("none", 0, "none", << >>, FALSE)
  /\ ops = 0
  /\ rc = NoRecompute

\* services::ris_computation::get_formula_for_date: the repository's row, or
\* StorageError::NotFound
FormulaLookup(date) ==
  /\ \E formula \in { get_formula_for_date(db.ris_formula_versions, date) } :
       last' = [ op |-> "lookup", doc |-> date,
                 outcome |-> IF formula = None THEN "err" ELSE "ok",
                 message |-> IF formula = None THEN << "NotFound" >> ELSE << >>,
                 repeat |-> FALSE, formula |-> formula ]
  /\ UNCHANGED << db, tx, pc, cur, snap, ops, rc >>

NextFormula == \E date \in LookupDates : FormulaLookup(date)

SpecFormula == InitFormula /\ [][NextFormula]_vars

\* C17: get_formula_for_date(d) fails with NotFound exactly when no stored
\* version has effective_from <= d and no effective_until or d before it;
\* otherwise it returns one of these versions, none of them being effective
\* from a later day
C17_FormulaForDate ==
  last.op = "lookup" =>
    LET containing == { f \in db.ris_formula_versions : EffectiveOn(f, last.doc) }
    IN /\ last.outcome = "err" <=> containing = {}
       /\ last.outcome = "err" => last.message = << "NotFound" >> /\ last.formula = None
       /\ last.outcome = "ok" =>
            /\ last.formula # None
            /\ Unwrap(last.formula) \in containing
            /\ \A f \in containing : f.effective_from <= Unwrap(last.formula).effective_from

\* a lookup has chosen among several versions containing the date, next to
\* a version whose range ended on that very date
C17_Witness ==
  /\ last.op = "lookup"
  /\ last.outcome = "ok"
  /\ Cardinality({ f \in db.ris_formula_versions : EffectiveOn(f, last.doc) }) > 1
  /\ \E f \in db.ris_formula_versions : f.effective_until = Some(last.doc)
  /\ \E f \in db.ris_formula_versions :
       EffectiveOn(f, last.doc) /\ f.effective_from < Unwrap(last.formula).effective_from

(***************************************************************************)
(* The source client                                                       *)
(***************************************************************************)
\* what the source may answer to one GET: no answer at all, or a status
\* with a body that is the text of an ApiResponse document or is not
HttpStatuses == { 200, 201, 204, 400, 404, 500, 503 }

HttpBodies ==
  { [ json |-> TRUE, document |-> i, text |-> "" ] : i \in DOMAIN Responses }
    \cup { [ json |-> FALSE, document |-> 0, text |-> text ] :
             text \in { "", "<html>Not Found</html>", "{\"contest\": null}" } }

Replies ==
  { [ transport |-> "refused", status |-> 0,
      body |-> [ json |-> FALSE, document |-> 0, text |-> "" ] ],
    [ transport |-> "timeout", status |-> 0,
      body |-> [ json |-> FALSE, document |-> 0, text |-> "" ] ] }
    \cup { [ transport |-> "ok", status |-> status, body |-> body ] :
             status \in HttpStatuses, body \in HttpBodies }

\* ImporterError::RequestError(#[from] reqwest::Error)
RequestError(source) == [ variant |-> "RequestError", source |-> source ]

\* client.get(&url).send().await: an answer with any status is Ok
send(reply) ==
  IF reply.transport = "ok" THEN [ ok |-> TRUE, response |-> reply, requests |-> 1 ]
  ELSE [ ok |-> FALSE, error |-> RequestError(reply.transport), requests |-> 1 ]

\* response.json::<ApiResponse>().await: the body is decoded whatever the status
json(response) ==
  IF response.body.json THEN [ ok |-> TRUE, data |-> Responses[response.body.document] ]
  ELSE [ ok |-> FALSE, error |-> RequestError("decode") ]

\* LiftControlClient::fetch_live_general_table
fetch_live_general_table(reply) ==
  Let(send(reply), LAMBDA sent :
    IF ~ sent.ok THEN [ ok |-> FALSE, error |-> sent.error, requests |-> sent.requests ]
    ELSE Let(json(sent.response), LAMBDA decoded :
      IF ~ decoded.ok
      THEN [ ok |-> FALSE, error |-> decoded.error, requests |-> sent.requests ]
      ELSE [ ok |-> TRUE, data |-> decoded.data, requests |-> sent.requests ]))

Fetch(reply) ==
  /\ ops < MaxOps
  /\ \E r \in { fetch_live_general_table(reply) } :
       last' = [ op |-> "fetch", doc |-> 0,
                 outcome |-> IF r.ok THEN "ok" ELSE "err",
                 message |-> IF r.ok THEN << >> ELSE << r.error >>,
                 repeat |-> FALSE, reply |-> reply, requests |-> r.requests ]
  /\ ops' = ops + 1
  /\ UNCHANGED << db, tx, pc, cur, snap, rc >>

NextClient == \E reply \in Replies : Fetch(reply)

SpecClient == Init /\ [][NextClient]_vars

IsSuccess(status) == 200 <= status /\ status <= 299

\* C18 as stated: one call sends one GET; it fails when nothing answers or
\* the status is not a success status, whatever the body, and it fails when
\* a success answer's body is not an ApiResponse document, with an error of
\* another kind than the one of an unavailable source
C18_ClientErrorKinds ==
  last.op = "fetch" =>
    /\ last.requests = 1
    /\ (last.reply.transport # "ok" \/ ~ IsSuccess(last.reply.status)) =>
         /\ last.outcome = "err"
         /\ last.message[1].variant = "RequestError"
    /\ (last.reply.transport = "ok" /\ IsSuccess(last.reply.status)
          /\ ~ last.reply.body.json) =>
         /\ last.outcome = "err"
         /\ \A reply \in Replies :
              reply.transport # "ok" =>
                fetch_live_general_table(reply).error.variant # last.message[1].variant

(***************************************************************************)
(* LiftControlImporter::import: the sessions of one competition            *)
(***************************************************************************)
\* identifiers as sequences of tokens: slugs, ":", "," and " ".  The
\* sessions are named after the responses the source holds for them.
Identifiers ==
  << << SessionBaseSlug, ":", "1", ",", "2" >>,
     << SessionBaseSlug, ":", "2", ",", " ", "1", " " >>,
     << SessionBaseSlug, ":", "1", ",", "4", ",", "3" >>,
     << SessionBaseSlug, ":", "3", ",", ",", "5" >>,
     << SessionBaseSlug, ":" >>,
     << SessionBaseSlug >>,
     << SessionBaseSlug, ":", "1", ":", "2" >>,
     << SessionBaseSlug, ":", "4", ",", "1" >> >>

\* the response the source holds for a sub-slug
SessionResponse(sub_slug) ==
  CASE sub_slug = << "1" >> -> 1 [] sub_slug = << "2" >> -> 2 [] sub_slug = << "3" >> -> 3
    [] sub_slug = << "4" >> -> 4 [] sub_slug = << "5" >> -> 5 [] OTHER -> 0

\* what the source may answer for a sub-slug: nothing, or its response
RepliesFor(sub_slug) ==
  { reply \in Replies :
      \/ reply.transport = "refused"
      \/ /\ reply.transport = "ok" /\ reply.status = 200 /\ reply.body.json
         /\ reply.body.document = SessionResponse(sub_slug) }

\* the text of a part that is one token, the empty text for an empty part
AsText(tokens) == IF tokens = << >> THEN "" ELSE Head(tokens)

\* the sub-slugs the loop does not skip
Attempted(sub_slugs) ==
  SelectSeq([ i \in DOMAIN sub_slugs |-> Trim(sub_slugs[i]) ], LAMBDA sub_slug : sub_slug # << >>)

\* identifier.split(':') and the check of parts.len(); on success the
\* loop starts at the first sub-slug
ImportBegin(i) ==
  /\ pc = "idle"
  /\ ops < MaxOps
  /\ \E parts \in { SplitChar(Identifiers[i], ":") } :
       IF Len(parts) # 2
       THEN /\ last' = [ op |-> "sessions", doc |-> i, outcome |-> "err",
                         message |-> << "Invalid identifier format" >>, repeat |-> FALSE,
                         fetched |-> << >>, committed |-> << >>, begin |-> db ]
            /\ UNCHANGED << pc, cur >>
       ELSE /\ last' = [ op |-> "sessions", doc |-> i, outcome |-> "running",
                         message |-> << >>, repeat |-> FALSE,
                         fetched |-> << >>, committed |-> << >>, begin |-> db ]
            /\ cur' = [ base_slug |-> AsText(parts[1]),
                        sub_slugs |-> SplitChar(parts[2], ","), k |-> 1, response |-> 0 ]
            /\ pc' = "next"
  /\ snap' = db
  /\ ops' = ops + 1
  /\ UNCHANGED << db, tx, rc >>

\* let sub_slug = sub_slug.trim(); if sub_slug.is_empty() { continue; }
SessionSkip ==
  /\ pc = "next"
  /\ cur.k <= Len(cur.sub_slugs)
  /\ Trim(cur.sub_slugs[cur.k]) = << >>
  /\ cur' = [ cur EXCEPT !.k = @ + 1 ]
  /\ UNCHANGED << db, tx, pc, snap, last, ops, rc >>

\* self.client.fetch_live_general_table(sub_slug).await?
SessionFetch(reply) ==
  /\ pc = "next"
  /\ cur.k <= Len(cur.sub_slugs)
  /\ Trim(cur.sub_slugs[cur.k]) # << >>
  /\ reply \in RepliesFor(Trim(cur.sub_slugs[cur.k]))
  /\ IF fetch_live_general_table(reply).ok
     THEN /\ cur' = [ cur EXCEPT !.response = reply.body.document ]
          /\ pc' = "session"
          /\ last' = [ last EXCEPT !.fetched = Append(@, Trim(cur.sub_slugs[cur.k])) ]
     ELSE /\ cur' = NoCur
          /\ pc' = "idle"
          /\ last' = [ last EXCEPT !.fetched = Append(@, Trim(cur.sub_slugs[cur.k])),
                                   !.outcome = "err", !.message = << "RequestError" >> ]
  /\ UNCHANGED << db, tx, snap, ops, rc >>

\* transformer.import_competition(api_response).await?: the statements of
\* the session's transaction, up to the commit; an error drops the transaction
SessionImport(order) ==
  /\ pc = "session"
  /\ order \in OrdersOf(Responses[cur.response])
  /\ \E r \in { import_competition(db, cur.base_slug, Metadata, Responses[cur.response], order) } :
       IF r.ok
       THEN /\ tx' = r.s
            /\ pc' = "session_commit"
            /\ UNCHANGED << db, cur, last >>
       ELSE /\ db' = Rollback(db, r.s)
            /\ tx' = db'
            /\ pc' = "idle"
            /\ cur' = NoCur
            /\ last' = [ last EXCEPT !.outcome = "err", !.message = << "Unknown movement" >> ]
  /\ UNCHANGED << snap, ops, rc >>

\* tx.commit().await?, then the next turn of the loop
SessionCommit ==
  /\ pc = "session_commit"
  /\ db' = tx
  /\ snap' = tx
  /\ cur' = [ cur EXCEPT !.k = @ + 1, !.response = 0 ]
  /\ pc' = "next"
  /\ last' = [ last EXCEPT !.committed = Append(@, Trim(cur.sub_slugs[cur.k])) ]
  /\ UNCHANGED << tx, ops, rc >>

\* Ok(()) after the last sub-slug
ImportReturn ==
  /\ pc = "next"
  /\ cur.k > Len(cur.sub_slugs)
  /\ pc' = "idle"
  /\ cur' = NoCur
  /\ last' = [ last EXCEPT !.outcome = "ok" ]
  /\ UNCHANGED << db, tx, snap, ops, rc >>

NextSessions ==
  \/ \E i \in DOMAIN Identifiers : ImportBegin(i)
  \/ SessionSkip
  \/ \E reply \in Replies : SessionFetch(reply)
  \/ \E order \in Orders : SessionImport(order)
  \/ SessionCommit
  \/ ImportReturn

SpecSessions == Init /\ [][NextSessions]_vars

IsPrefix(short, long) ==
  Len(short) <= Len(long) /\ \A i \in DOMAIN short : short[i] = long[i]

\* the sub-slugs listed in an identifier, in order, blank ones left out
ListedSessions(i) ==
  IF Len(SplitChar(Identifiers[i], ":")) # 2 THEN << >>
  ELSE Attempted(SplitChar(SplitChar(Identifiers[i], ":")[2], ","))

\* C19: the sessions are fetched in the listed order and one at a time, a
\* session being fetched only when every session fetched before it has
\* committed and no transaction is open; the committed store changes only
\* by a session's commit; a session after the first finds the competition
\* and federation rows of the sessions before it and writes no second ones;
\* after a failure no later session has been fetched and the store is the
\* one the last committed session left; after success every listed session
\* has committed
C19_SessionsInOrder ==
  last.op = "sessions" =>
    /\ IsPrefix(last.fetched, ListedSessions(last.doc))
    /\ IsPrefix(last.committed, last.fetched)
    /\ Len(last.fetched) <= Len(last.committed) + 1
    /\ db = snap
    /\ pc = "next" => last.fetched = last.committed /\ tx = db
    /\ pc = "session" => Len(last.fetched) = Len(last.committed) + 1 /\ tx = db
    /\ (pc = "session_commit" /\ last.committed # << >>) =>
         /\ db.federations = tx.federations
         /\ db.competitions = tx.competitions
         /\ Cardinality({ c \in tx.competitions : c.slug = cur.base_slug }) = 1
         /\ \A m \in db.competition_movements :
              \E n \in tx.competition_movements :
                n.competition_id = m.competition_id /\ n.movement_name = m.movement_name
    /\ (pc = "idle" /\ last.outcome = "ok") => last.committed = ListedSessions(last.doc)
    /\ (pc = "idle" /\ last.outcome = "err") =>
         /\ Len(last.committed) < Len(ListedSessions(last.doc))
              \/ Len(SplitChar(Identifiers[last.doc], ":")) # 2
         /\ Len(last.fetched) <= Len(last.committed) + 1

\* the second of three sessions has failed: the first stays committed and
\* the third was never fetched
C19_Witness ==
  /\ last.op = "sessions"
  /\ pc = "idle"
  /\ last.outcome = "err"
  /\ Len(ListedSessions(last.doc)) = 3
  /\ Len(last.fetched) = 2
  /\ Len(last.committed) = 1
  /\ db # last.begin
  /\ db.lifts # {}

(***************************************************************************)
(* import bulk: every canonical file of a directory                        *)
(***************************************************************************)
\* a file: its path as components of characters, and what reading and
\* parsing it gives (document = 0: not a CanonicalFormat document)
File(path, document) == [ path |-> path, document |-> document ]

dot_json == << ".", "j", "s", "o", "n" >>

\* the files a directory is filled from: documents that import, one that
\* does not parse, one that fails validation, one whose import fails, a file
\* that is not JSON, files one and two levels down
BulkFiles ==
  { File(<< << "b" >> \o dot_json >>, 1),
    File(<< << "a" >> \o dot_json >>, 0),
    File(<< << "1", "0" >> \o dot_json >>, 2),
    File(<< << "2" >> \o dot_json >>, Len(RegularDocs) + 2),
    File(<< << "n", "o", "t", "e", "s", ".", "t", "x", "t" >> >>, 0),
    File(<< << "d" >>, << "c" >> \o dot_json >>, Len(RegularDocs)),
    File(<< << "d" >>, << "e" >>, << "x" >> \o dot_json >>, 1) }

\* the directories the command is run on
Directories ==
  { BulkFiles, {} } \cup { BulkFiles \ { f } : f \in BulkFiles }
    \cup { { f } : f \in BulkFiles }

\* the order of characters in paths
PathChars == << "." >> \o Digits \o LowerLetters

RECURSIVE LessChars(_, _)
LessChars(a, b) ==
  IF b = << >> THEN FALSE
  ELSE IF a = << >> THEN TRUE
  ELSE IF Head(a) = Head(b) THEN LessChars(Tail(a), Tail(b))
  ELSE IndexIn(Head(a), PathChars) < IndexIn(Head(b), PathChars)

\* Ord for PathBuf: component by component
RECURSIVE LessPath(_, _)
LessPath(p, q) ==
  IF q = << >> THEN FALSE
  ELSE IF p = << >> THEN TRUE
  ELSE IF Head(p) = Head(q) THEN LessPath(Tail(p), Tail(q))
  ELSE LessChars(Head(p), Head(q))

\* json_files.sort()
RECURSIVE SortFiles(_)
SortFiles(files) ==
  IF files = {} THEN << >>
  ELSE LET first == CHOOSE f \in files :
                      \A g \in files \ { f } : LessPath(f.path, g.path)
       IN << first >> \o SortFiles(files \ { first })

\* Path::extension: what follows the last dot of the file name, when the
\* name has a dot after its first character
extension(path) ==
  LET name == path[Len(path)]
      dots == { i \in 2..Len(name) : name[i] = "." }
  IN IF dots = {} THEN None
     ELSE Some(SubSeq(name, (CHOOSE i \in dots : \A j \in dots : j <= i) + 1, Len(name)))

\* the scan: the JSON files of the directory and of its subdirectories,
\* one level down
ScanDirectory(directory) ==
  { f \in directory : Len(f.path) <= 2 /\ extension(f.path) = Some(<< "j", "s", "o", "n" >>) }

\* a file handled whether or not it parses and validates
process_canonical_file_NoChecks(s, file, validate_only, statement_fails) ==
  IF file.document = 0 THEN [ ok |-> TRUE, s |-> s ]
  ELSE [ ok |-> TRUE, s |-> import_to_database(s, Docs[file.document]).s ]

\* process_canonical_file: read, parse, validate and, unless validate_only,
\* import in one transaction (statement_fails: a statement of it fails)
process_canonical_file(s, file, validate_only, statement_fails) ==
  IF file.document = 0 THEN [ ok |-> FALSE, s |-> s ]
  ELSE IF ~ validate(Docs[file.document]).ok THEN [ ok |-> FALSE, s |-> s ]
  ELSE IF validate_only THEN [ ok |-> TRUE, s |-> s ]
  ELSE Let(import_to_database(s, Docs[file.document]), LAMBDA r :
         IF r.ok /\ ~ statement_fails THEN [ ok |-> TRUE, s |-> r.s ]
         ELSE [ ok |-> FALSE, s |-> Rollback(s, r.s) ])

\* handle_bulk_import up to the loop: the scan (which may fail), the early
\* return on no file, the connection (which may fail)
BulkBegin(directory, validate_only, scan_ok, connect_ok) ==
  /\ pc = "idle"
  /\ ops < MaxOps
  /\ \E json_files \in { SortFiles(ScanDirectory(directory)) } :
       /\ last' = [ op |-> "bulk", doc |-> 0,
                    outcome |-> IF ~ scan_ok THEN "err"
                                ELSE IF json_files = << >> THEN "ok"
                                ELSE IF ~ validate_only /\ ~ connect_ok THEN "err"
                                ELSE "running",
                    message |-> << >>, repeat |-> FALSE,
                    directory |-> directory, validate_only |-> validate_only,
                    started |-> scan_ok /\ (json_files = << >> \/ validate_only \/ connect_ok),
                    processed |-> << >>, failed |-> {}, success_count |-> 0,
                    error_count |-> 0, begin |-> db ]
       /\ IF scan_ok /\ json_files # << >> /\ (validate_only \/ connect_ok)
          THEN /\ pc' = "bulk"
               /\ cur' = [ json_files |-> json_files, idx |-> 1 ]
          ELSE UNCHANGED << pc, cur >>
  /\ snap' = db
  /\ ops' = ops + 1
  /\ UNCHANGED << db, tx, rc >>

\* one turn of the loop
BulkFile(statement_fails) ==
  /\ pc = "bulk"
  /\ cur.idx <= Len(cur.json_files)
  /\ \E r \in { process_canonical_file(db, cur.json_files[cur.idx], last.validate_only,
                                       statement_fails) } :
       /\ db' = r.s
       /\ last' = [ last EXCEPT
                      !.processed = Append(@, cur.json_files[cur.idx]),
                      !.failed = IF r.ok THEN @ ELSE @ \cup { cur.idx },
                      !.success_count = IF r.ok THEN @ + 1 ELSE @,
                      !.error_count = IF r.ok THEN @ ELSE @ + 1 ]
  /\ tx' = db'
  /\ snap' = db
  /\ cur' = [ cur EXCEPT !.idx = @ + 1 ]
  /\ UNCHANGED << pc, ops, rc >>

\* after the loop: Err when a file failed
BulkReturn ==
  /\ pc = "bulk"
  /\ cur.idx > Len(cur.json_files)
  /\ last' = [ last EXCEPT !.outcome = IF last.error_count > 0 THEN "err" ELSE "ok" ]
  /\ pc' = "idle"
  /\ cur' = NoCur
  /\ UNCHANGED << db, tx, snap, ops, rc >>

NextBulk ==
  \/ \E directory \in Directories : \E validate_only, scan_ok, connect_ok \in BOOLEAN :
       BulkBegin(directory, validate_only, scan_ok, connect_ok)
  \/ \E statement_fails \in BOOLEAN : BulkFile(statement_fails)
  \/ BulkReturn

SpecBulk == Init /\ [][NextBulk]_vars

BulkDone == last.op = "bulk" /\ pc = "idle"

\* the files the command is to handle, in the order of their paths
Discovered(directory) == SortFiles(ScanDirectory(directory))

\* a file that cannot be handled: it does not parse or does not validate
Unusable(file) == file.document = 0 \/ ~ validate(Docs[file.document]).ok

\* the part every reading of C20 shares: the files handled so far are the
\* first discovered ones in sorted order, each once; the two counts add up to
\* their number; a failed file left the store as it was; an unusable file
\* has failed
BulkLoopIsolatesFiles ==
  /\ IsPrefix(last.processed, Discovered(last.directory))
  /\ last.success_count + last.error_count = Len(last.processed)
  /\ last.error_count = Cardinality(last.failed)
  /\ \A i \in DOMAIN last.processed : Unusable(last.processed[i]) => i \in last.failed
  /\ (pc = "bulk" /\ last.processed # << >> /\ Len(last.processed) \in last.failed)
       => db = snap
  /\ last.validate_only => db = last.begin

\* C20 as stated: whenever the command ends, every discovered file has been
\* handled once in sorted order, the counts add up to the number of files,
\* and the command has failed exactly when a file has failed
C20_BulkAlwaysProcessesAll ==
  last.op = "bulk" =>
    /\ BulkLoopIsolatesFiles
    /\ pc = "idle" =>
         /\ last.processed = Discovered(last.directory)
         /\ last.success_count + last.error_count = Len(Discovered(last.directory))
         /\ last.outcome = "err" <=> last.error_count > 0

\* C20, for the runs that reach the loop (the scan succeeded and, when there
\* is a file to import, the database was connected); a run that does not
\* reach it fails with no file handled, no count raised and no write
C20_BulkProcessesAllOnceStarted ==
  last.op = "bulk" =>
    /\ BulkLoopIsolatesFiles
    /\ (pc = "idle" /\ last.started) =>
         /\ last.processed = Discovered(last.directory)
         /\ last.success_count + last.error_count = Len(Discovered(last.directory))
         /\ last.outcome = "err" <=> last.error_count > 0
    /\ (pc = "idle" /\ ~ last.started) =>
         /\ last.processed = << >>
         /\ last.error_count = 0
         /\ last.outcome = "err"
         /\ db = last.begin

\* a run over the five JSON files of a directory: the second does not
\* validate, the third does not parse, the import of the fifth fails, the
\* first and the fourth are imported
C20_Witness ==
  /\ BulkDone
  /\ last.started
  /\ ~ last.validate_only
  /\ Len(last.processed) = 5
  /\ last.failed = { 2, 3, 5 }
  /\ last.success_count = 2
  /\ last.outcome = "err"
  /\ db # last.begin

(***************************************************************************)
(* upsert_competition on its own: documents that share a slug              *)
(***************************************************************************)
FederationOther ==
  [ name |-> "IPL", abbreviation |-> None, country |-> Some("Spain") ]

\* canonical CompetitionData: two slugs, every other field in two values
CompetitionDocs ==
  { Competitions[1], Competitions[2], Competitions[3], Competitions[4],
    [ Competitions[4] EXCEPT !.name = "Coupe de France 2019", !.city = Some("Paris"),
                             !.number_of_judges = Some(5) ],
    [ name |-> "Annecy Cup", slug |-> "annecy-4-lift-2025", federation |-> FederationOther,
      start_date |-> 2, end_date |-> 3, venue |-> Some("Halle"), city |-> None,
      country |-> "Spain", number_of_judges |-> Some(5), status |-> Some("upcoming") ],
    [ name |-> "Lyon Open", slug |-> "lyon-open", federation |-> FederationOther,
      start_date |-> 5, end_date |-> 6, venue |-> None, city |-> Some("Lyon"),
      country |-> "France", number_of_judges |-> None, status |-> Some("cancelled") ] }

\* direct-import metadata: the session's and a later edition of it
CompetitionMetadata ==
  { Metadata,
    [ Metadata EXCEPT !.name = "Annecy 4 Lift II",
                      !.federation = [ name |-> "IPL", abbreviation |-> "IPL", country |-> "Spain" ],
                      !.start_date = 5, !.end_date = 5, !.venue = None,
                      !.city = Some("Lyon"), !.country = None,
                      !.number_of_judges = Some(5) ] }

BaseSlugs == { SessionBaseSlug, "lyon-open" }

\* the values a statement is given for the row, and what it did
CompetitionOutcome(before, result, slug, name, status, venue, city, country, number_of_judge, start_date) ==
  [ op |-> "upsert_competition", doc |-> 0, outcome |-> "ok", message |-> << >>,
    repeat |-> \E c \in before.competitions : c.slug = slug,
    id |-> result.id, slug |-> slug, name |-> name, status |-> status,
    venue |-> venue, city |-> city, country |-> country,
    number_of_judge |-> number_of_judge, start_date |-> start_date ]

\* CanonicalTransformer::upsert_competition in a transaction that commits
CanonicalUpsertCompetition(competition) ==
  /\ pc = "idle"
  /\ ops < MaxOps
  /\ \E r \in { upsert_competition(db, competition) } :
       /\ db' = r.s
       /\ last' = CompetitionOutcome(db, r, competition.slug, competition.name,
                    UnwrapOr(competition.status, "completed"), competition.venue,
                    competition.city, Some(competition.country),
                    competition.number_of_judges, competition.start_date)
  /\ tx' = db'
  /\ snap' = db
  /\ ops' = ops + 1
  /\ UNCHANGED << pc, cur, rc >>

\* LiftControlTransformer::upsert_competition in a transaction that commits
LiftControlUpsertCompetition(base_slug, metadata) ==
  /\ pc = "idle"
  /\ ops < MaxOps
  /\ \E r \in { liftcontrol_upsert_competition(db, base_slug, metadata) } :
       /\ db' = r.s
       /\ last' = CompetitionOutcome(db, r, base_slug, metadata.name, "completed",
                    metadata.venue, metadata.city, metadata.country,
                    metadata.number_of_judges, metadata.start_date)
  /\ tx' = db'
  /\ snap' = db
  /\ ops' = ops + 1
  /\ UNCHANGED << pc, cur, rc >>

NextCompetition ==
  \/ \E competition \in CompetitionDocs : CanonicalUpsertCompetition(competition)
  \/ \E base_slug \in BaseSlugs : \E metadata \in CompetitionMetadata :
       LiftControlUpsertCompetition(base_slug, metadata)

SpecCompetition == Init /\ [][NextCompetition]_vars

RowsWithSlug(s, slug) == { c \in s.competitions : c.slug = slug }

\* C21: an upsert of a competition whose slug is already stored keeps that
\* one row and its competition_id, gives it the new name, status, venue,
\* city, country and judge count, leaves its start_date, end_date and
\* federation_id as they were, and leaves every other competition row alone
C21_CompetitionUpsertFrame ==
  (last.op = "upsert_competition" /\ last.repeat) =>
    \E old \in RowsWithSlug(snap, last.slug) :
      /\ RowsWithSlug(snap, last.slug) = { old }
      /\ last.id = old.competition_id
      /\ db.competitions =
           (snap.competitions \ { old }) \cup
             { [ competition_id |-> old.competition_id,
                 slug |-> old.slug,
                 start_date |-> old.start_date,
                 end_date |-> old.end_date,
                 federation_id |-> old.federation_id,
                 name |-> last.name,
                 status |-> last.status,
                 venue |-> last.venue,
                 city |-> last.city,
                 country |-> last.country,
                 number_of_judge |-> last.number_of_judge ] }

\* a stored competition was given again with another name, status, venue,
\* city, country, judge count, start date and federation
C21_Witness ==
  /\ last.op = "upsert_competition"
  /\ last.repeat
  /\ \E old \in RowsWithSlug(snap, last.slug) :
       /\ old.name # last.name
       /\ old.status # last.status
       /\ old.venue # last.venue
       /\ old.city # last.city
       /\ old.country # last.country
       /\ old.number_of_judge # last.number_of_judge
       /\ old.start_date # last.start_date
       /\ Cardinality(db.federations) = 2

(***************************************************************************)
(* Re-import: what the store holds for the entities a document names       *)
(***************************************************************************)
\* the stored rows with the natural key of a category of the document
StoredCategories(s, category) ==
  { c \in s.categories : c.name = category.name /\ c.gender = category.gender }

\* the stored rows with the natural key of an athlete of the document
StoredAthletes(s, athlete, category) ==
  Let(NormalizedAthleteName(athlete.first_name, athlete.last_name), LAMBDA n :
    { a \in s.athletes :
        /\ a.first_name = n.first_name
        /\ a.last_name = n.last_name
        /\ a.gender = UnwrapOr(athlete.gender, category.gender)
        /\ a.country = athlete.country })

\* the athletes of a category, each once by natural key, and their lifts each
\* once by movement, as the claim's "names the same entities" supposes
NamedOnce(category) ==
  /\ \A i, j \in DOMAIN category.athletes :
       i # j => StoredAthletes(db, category.athletes[i], category)
                  # StoredAthletes(db, category.athletes[j], category)
  /\ \A i \in DOMAIN category.athletes :
       \A j, k \in DOMAIN category.athletes[i].lifts :
         j # k => category.athletes[i].lifts[j].movement
                    # category.athletes[i].lifts[k].movement

\* the stored lift and attempts of a participant carry the document's values
LiftConverged(s, participant, lift, athlete) ==
  \E l \in s.lifts :
    /\ l.participant_id = participant.participant_id
    /\ l.movement_name = lift.movement
    /\ l.max_weight = BestSuccessful(lift.attempts)
    /\ l.equipment_setting = CanonicalSettings(lift, athlete)
    /\ \A i \in DOMAIN lift.attempts :
         \E a \in s.attempts :
           /\ a.lift_id = l.lift_id
           /\ a.attempt_number = lift.attempts[i].attempt_number
           /\ a.weight = Some(lift.attempts[i].weight)
           /\ a.is_successful = lift.attempts[i].is_successful
           /\ a.no_rep_reason = lift.attempts[i].no_rep_reason

\* the stored athlete and participant carry the document's values
AthleteConverged(s, competition, stored_category, athlete, category) ==
  \E a \in StoredAthletes(s, athlete, category) :
    /\ a.nationality = athlete.nationality
    /\ \E p \in s.participants :
         /\ p.competition_id = Some(competition.competition_id)
         /\ p.category_id = Some(stored_category.category_id)
         /\ p.athlete_id = a.athlete_id
         /\ p.bodyweight = athlete.bodyweight
         /\ p.is_disqualified = UnwrapOr(athlete.is_disqualified, FALSE)
         /\ p.disqualified_reason = athlete.disqualified_reason
         /\ \A k \in DOMAIN athlete.lifts : LiftConverged(s, p, athlete.lifts[k], athlete)

\* the stored category carries the document's weight-class bounds
CategoryConverged(s, competition, category) ==
  \E c \in StoredCategories(s, category) :
    /\ c.weight_class_min = category.weight_class_min
    /\ c.weight_class_max = category.weight_class_max
    /\ \A i \in DOMAIN category.athletes :
         AthleteConverged(s, competition, c, category.athletes[i], category)

\* C22 as stated: after a successful import of a document, whatever was
\* imported before, every stored field of the categories, athletes,
\* participants, lifts and attempts the document names has the document's value
C22_ReimportConverges ==
  ImportSucceeded =>
    \A competition \in RowsWithSlug(db, Docs[last.doc].competition.slug) :
      \A i \in DOMAIN Docs[last.doc].categories :
        NamedOnce(Docs[last.doc].categories[i])
          => CategoryConverged(db, competition, Docs[last.doc].categories[i])

(***************************************************************************)
(* compute_ris on Decimal totals: a total is mantissa / 10^scale           *)
(***************************************************************************)
Decimal(mantissa, scale) == [ mantissa |-> mantissa, scale |-> scale ]

RECURSIVE Pow10(_)
Pow10(n) == IF n = 0 THEN 1 ELSE 10 * Pow10(n - 1)

\* a Decimal of scale 3 or less counted in thousandths
Thousandths(d) == d.mantissa * Pow10(3 - d.scale)

\* Decimal::round_dp(2) of num/den where num/den is already counted in
\* hundredths (banker's rounding)
RoundHalfEven(num, den) ==
  LET q == num \div den
      r == num % den
  IN IF 2 * r < den THEN q
     ELSE IF 2 * r > den THEN q + 1
     ELSE IF q % 2 = 0 THEN q ELSE q + 1

\* the score rounded to whole points
compute_ris_decimal_RoundDp0(bodyweight, total, gender, formula) ==
  LET c == constants_for_gender(formula, gender)
      one_plus == 100 + c.q * decimal_exp((0 - c.b) * (bodyweight - c.v))
      den_num == c.a * one_plus + (c.k - c.a) * 100
  IN 100 * RoundHalfEven(Thousandths(total) * one_plus, den_num * 10 * 100)

\* compute_ris for a Decimal total, in hundredths:
\* (total * 100 / (A + (K - A) / (1 + Q * e^(-B * (BW - v))))).round_dp(2)
compute_ris_decimal(bodyweight, total, gender, formula) ==
  LET c == constants_for_gender(formula, gender)
      one_plus == 100 + c.q * decimal_exp((0 - c.b) * (bodyweight - c.v))
      den_num == c.a * one_plus + (c.k - c.a) * 100
  IN RoundHalfEven(Thousandths(total) * 10 * one_plus, den_num)

\* whether the unrounded scores of two totals differ by more than 0.01
ScoresApart(bodyweight, total1, total2, gender, formula) ==
  LET c == constants_for_gender(formula, gender)
      one_plus == 100 + c.q * decimal_exp((0 - c.b) * (bodyweight - c.v))
      den_num == c.a * one_plus + (c.k - c.a) * 100
  IN (Thousandths(total2) - Thousandths(total1)) * 10 * one_plus > den_num

\* totals in whole kilograms, in plate steps and in finer Decimal values
Totals ==
  { Decimal(0, 0), Decimal(100, 0), Decimal(101, 0), Decimal(1005, 1),
    Decimal(10025, 2), Decimal(100001, 3), Decimal(100002, 3), Decimal(100003, 3),
    Decimal(100004, 3), Decimal(250, 0) }

Bodyweights == 69..71

Genders == { "M", "F" }

\* the arguments held fixed while the total varies
InitScore ==
  /\ db = EmptyStore
  /\ tx = EmptyStore
  /\ pc = "idle"
  /\ \E bodyweight \in Bodyweights : \E gender \in Genders :
       \E formula \in RisFormulaVersions :
         cur = [ bodyweight |-> bodyweight, gender |-> gender, formula |-> formula ]
  /\ snap = EmptyStore
  /\ last = [ op |-> "none", total |-> Decimal(0, 0), score |-> 0, previous |-> None ]
  /\ ops = 0
  /\ rc = NoRecompute

\* POST /ris/compute: compute_ris on the fixed arguments and one total; the
\* call before it is kept for comparison
ComputeRis(total) ==
  /\ ops < MaxOps
  /\ last' = [ op |-> "compute_ris", total |-> total,
               score |-> compute_ris_decimal(cur.bodyweight, total, cur.gender, cur.formula),
               previous |-> IF last.op = "compute_ris"
                            THEN Some([ total |-> last.total, score |-> last.score ])
                            ELSE None ]
  /\ ops' = ops + 1
  /\ UNCHANGED << db, tx, pc, cur, snap, rc >>

NextScore == \E total \in Totals : ComputeRis(total)

SpecScore == InitScore /\ [][NextScore]_vars

\* two calls with the same bodyweight, gender and formula, the first with
\* the smaller total
Compared ==
  /\ last.op = "compute_ris"
  /\ IsSome(last.previous)
  /\ Thousandths(Unwrap(last.previous).total) < Thousandths(last.total)

\* C23 as stated: the smaller total gets the strictly smaller returned score
C23_RisStrictlyIncreasing ==
  Compared => Unwrap(last.previous).score < last.score

\* C23, with the rounding taken into account: the smaller total never gets
\* the larger returned score, and gets a strictly smaller one when the
\* unrounded scores differ by more than 0.01
C23_RisIncreasingUpToRounding ==
  Compared =>
    /\ Unwrap(last.previous).score <= last.score
    /\ ScoresApart(cur.bodyweight, Unwrap(last.previous).total, last.total,
                   cur.gender, cur.formula)
         => Unwrap(last.previous).score < last.score

\* two totals one thousandth apart have been returned the same score
C23_Witness ==
  /\ Compared
  /\ Unwrap(last.previous).total = Decimal(100001, 3)
  /\ last.total = Decimal(100002, 3)
  /\ Unwrap(last.previous).score = last.score
  /\ last.score > 0

(***************************************************************************)
(* Direct import of sessions whose attempts the source numbers or weighs   *)
(* unexpectedly                                                            *)
(***************************************************************************)
\* a session of one athlete with one squat result
OneSquatSession(results) ==
  ApiResponse(
    << CategoryInfo(1, << "O", "p", "e", "n" >>, << "H", "o", "m", "m", "e" >>) >>,
    << Entry(1, << SourceAthlete(7, jo, li, Some(70),
                     << MovementResults(1, results, 100) >>, 150, 1) >>) >>,
    << SourceMovement(1, << "S", "q", "u", "a", "t" >>, 1) >>)

\* under key "1" an attempt the source numbers 4; a negative charge; two
\* keys holding attempts of one number
UncheckedResponses ==
  { OneSquatSession(<< SourceAttempt(4, 100, Number(111)) >>),
    OneSquatSession(<< SourceAttempt(1, 0 - 5, Number(111)) >>),
    OneSquatSession(<< SourceAttempt(2, 100, Number(111)), SourceAttempt(2, 110, Number(0)) >>) }

SessionResponses == Range(Responses) \cup UncheckedResponses

\* LiftControlImporter::import of one session given by its response
ImportSession(api_response, order) ==
  /\ pc = "idle"
  /\ ops < MaxOps
  /\ \E r \in { import_competition(db, SessionBaseSlug, Metadata, api_response, order) } :
       /\ db' = IF r.ok THEN r.s ELSE Rollback(db, r.s)
       /\ last' = [ op |-> "session", doc |-> 0,
                    outcome |-> IF r.ok THEN "ok" ELSE "err",
                    message |-> IF r.ok THEN << >> ELSE << "Unknown movement" >>,
                    repeat |-> FALSE,
                    unchecked |-> api_response \in UncheckedResponses ]
  /\ tx' = db'
  /\ snap' = db
  /\ ops' = ops + 1
  /\ UNCHANGED << pc, cur, rc >>

NextAttempts ==
  \/ \E d \in DocIds : CanonicalReject(d)
  \/ \E d \in DocIds : CanonicalBegin(d)
  \/ ImportMovements \/ ImportCategoryStep \/ ImportCategoriesDone
  \/ ImportRis \/ ImportRisFails \/ ImportCommit \/ ImportStatementFails
  \/ \E api_response \in SessionResponses : \E order \in OrdersOf(api_response) :
       ImportSession(api_response, order)

SpecAttempts == Init /\ [][NextAttempts]_vars

\* C24 as stated: in every state of the committed store every attempt row
\* has attempt_number 1, 2 or 3 and no negative weight, and no lift has two
\* attempt rows with one attempt_number
C24_AttemptRowsWellFormed ==
  /\ \A a \in db.attempts :
       /\ a.attempt_number \in { 1, 2, 3 }
       /\ IsSome(a.weight) => Unwrap(a.weight) >= 0
  /\ \A a, b \in db.attempts :
       (a.lift_id = b.lift_id /\ a.attempt_number = b.attempt_number) => a = b

(***************************************************************************)
(* Two imports at once.  Each statement sees the committed rows and the    *)
(* rows of its own transaction (READ COMMITTED); the lookups and inserts   *)
(* of federations, categories and athletes are the statements in play.     *)
(***************************************************************************)
NoRows == [ federations |-> {}, categories |-> {}, athletes |-> {} ]

\* the documents of the two imports: one men's category, a men's and a
\* women's category, the women's category alone
RaceDocs ==
  << Docs[1], Docs[3], [ Docs[3] EXCEPT !.categories = << @[2] >> ] >>

\* the lookups of import_to_database in the order it makes them
KeyStatements(canonical) ==
  << [ kind |-> "federation", federation |-> canonical.competition.federation ] >>
  \o FlatMap(canonical.categories, LAMBDA category :
       << [ kind |-> "category", category |-> category ] >>
       \o [ i \in DOMAIN category.athletes |->
              [ kind |-> "athlete", category |-> category,
                athlete |-> category.athletes[i] ] ])

\* the store as one lookup-then-insert leaves it
KeyStatement(s, statement) ==
  IF statement.kind = "federation" THEN get_or_create_federation(s, statement.federation).s
  ELSE IF statement.kind = "category" THEN upsert_category(s, statement.category).s
  ELSE upsert_athlete(s, statement.athlete, statement.category).s

\* the rows the statement inserts
Inserted(before, after) ==
  [ federations |-> after.federations \ before.federations,
    categories |-> after.categories \ before.categories,
    athletes |-> after.athletes \ before.athletes ]

\* an insert on which no unique index is checked
ViolatesUnique_NoIndex(new, rows) == FALSE

\* the unique indexes of the store: federations (name), categories (name,
\* gender), athletes (first_name, last_name, gender, country), athletes (slug)
ViolatesUnique(new, rows) ==
  \/ \E n \in new.federations, r \in rows.federations : n.name = r.name
  \/ \E n \in new.categories, r \in rows.categories :
       n.name = r.name /\ n.gender = r.gender
  \/ \E n \in new.athletes, r \in rows.athletes :
       \/ n.slug = r.slug
       \/ /\ n.first_name = r.first_name /\ n.last_name = r.last_name
          /\ n.gender = r.gender /\ n.country = r.country

Importers == { 1, 2 }

Other(i) == 3 - i

IdleImporter ==
  [ running |-> FALSE, doc |-> 0, k |-> 0, phase |-> "none", seen |-> EmptyStore,
    writes |-> NoRows, nextId |-> 0, missed |-> {}, overlapped |-> FALSE,
    outcome |-> "none" ]

\* what a statement of importer i reads
ViewOf(i) ==
  [ db EXCEPT !.federations = @ \cup cur[i].writes.federations,
              !.categories = @ \cup cur[i].writes.categories,
              !.athletes = @ \cup cur[i].writes.athletes,
              !.nextId = cur[i].nextId ]

InitRace ==
  /\ db = EmptyStore
  /\ tx = EmptyStore
  /\ pc = "idle"
  /\ cur = << IdleImporter, IdleImporter >>
  /\ snap = EmptyStore
  /\ last = Outcome("none", 0, "none", << >>, FALSE)
  /\ ops = 0
  /\ rc = NoRecompute

\* pool.begin(): the importer gets identifiers no other transaction gets
RaceBegin(i, d) ==
  /\ ~ cur[i].running
  /\ ops < MaxOps
  /\ cur' = [ cur EXCEPT ![i] = [ IdleImporter EXCEPT
                                    !.running = TRUE, !.doc = d, !.k = 1,
                                    !.phase = "select",
                                    !.nextId = db.nextId + 50 * (i - 1),
                                    !.overlapped = cur[Other(i)].running ],
                         ![Other(i)] = [ @ EXCEPT !.overlapped = @ \/ cur[Other(i)].running ] ]
  /\ db' = [ db EXCEPT !.nextId = @ + 100 ]
  /\ tx' = db'
  /\ ops' = ops + 1
  /\ UNCHANGED << pc, snap, last, rc >>

\* the SELECT of a lookup: what it returns is what the importer acts on
RaceSelect(i) ==
  /\ cur[i].running
  /\ cur[i].phase = "select"
  /\ cur[i].k <= Len(KeyStatements(RaceDocs[cur[i].doc]))
  /\ cur' = [ cur EXCEPT ![i].phase = "insert", ![i].seen = ViewOf(i) ]
  /\ UNCHANGED << db, tx, pc, snap, last, ops, rc >>

\* the rest of the lookup: nothing on a hit; on a miss the INSERT, which
\* waits while the other transaction holds an uncommitted row of the same
\* key, fails on a committed one, and otherwise adds the row
RaceInsert(i) ==
  /\ cur[i].running
  /\ cur[i].phase = "insert"
  /\ \E new \in { Inserted(cur[i].seen,
                           KeyStatement(cur[i].seen,
                                        KeyStatements(RaceDocs[cur[i].doc])[cur[i].k])) } :
       /\ ~ ViolatesUnique(new, cur[Other(i)].writes)
       /\ IF ViolatesUnique(new, ViewOf(i))
          THEN /\ cur' = [ cur EXCEPT ![i] = [ @ EXCEPT !.running = FALSE, !.phase = "none",
                                                       !.writes = NoRows,
                                                       !.outcome = "err" ] ]
               /\ last' = Outcome("race", cur[i].doc, "err", << "unique violation" >>, FALSE)
          ELSE /\ cur' = [ cur EXCEPT ![i] = [ @ EXCEPT
                             !.phase = "select", !.k = @ + 1,
                             !.writes = [ federations |-> @.federations \cup new.federations,
                                          categories |-> @.categories \cup new.categories,
                                          athletes |-> @.athletes \cup new.athletes ],
                             !.nextId = IF new = NoRows THEN @ ELSE @ + 1,
                             !.missed = IF new = NoRows THEN @
                                        ELSE @ \cup { KeyStatements(RaceDocs[cur[i].doc])[cur[i].k].kind } ] ]
               /\ UNCHANGED last
  /\ UNCHANGED << db, tx, pc, snap, ops, rc >>

\* tx.commit()
RaceCommit(i) ==
  /\ cur[i].running
  /\ cur[i].phase = "select"
  /\ cur[i].k > Len(KeyStatements(RaceDocs[cur[i].doc]))
  /\ db' = [ db EXCEPT !.federations = @ \cup cur[i].writes.federations,
                       !.categories = @ \cup cur[i].writes.categories,
                       !.athletes = @ \cup cur[i].writes.athletes ]
  /\ tx' = db'
  /\ snap' = db
  /\ cur' = [ cur EXCEPT ![i] = [ @ EXCEPT !.running = FALSE, !.phase = "none",
                                          !.writes = NoRows, !.outcome = "ok" ] ]
  /\ last' = Outcome("race", cur[i].doc, "ok", << >>, FALSE)
  /\ UNCHANGED << pc, ops, rc >>

\* any statement may fail (lost connection, deadlock victim): the
\* transaction is dropped
RaceStatementFails(i) ==
  /\ cur[i].running
  /\ cur' = [ cur EXCEPT ![i] = [ @ EXCEPT !.running = FALSE, !.phase = "none",
                                          !.writes = NoRows, !.outcome = "err" ] ]
  /\ last' = Outcome("race", cur[i].doc, "err", << "statement failed" >>, FALSE)
  /\ UNCHANGED << db, tx, pc, snap, ops, rc >>

NextRace ==
  \/ \E i \in Importers : \E d \in DOMAIN RaceDocs : RaceBegin(i, d)
  \/ \E i \in Importers : RaceSelect(i)
  \/ \E i \in Importers : RaceInsert(i)
  \/ \E i \in Importers : RaceCommit(i)
  \/ \E i \in Importers : RaceStatementFails(i)

SpecRace == InitRace /\ [][NextRace]_vars

BothFinished == \A i \in Importers : ~ cur[i].running /\ cur[i].outcome # "none"

Export(i, order, metadata) ==
  /\ pc = "idle"
  /\ ops < MaxOps
  /\ \E r \in { to_canonical(SessionBaseSlug, metadata, Responses[i], order) } :
       last' = [ op |-> "export", doc |-> i, outcome |-> IF r.ok THEN "ok" ELSE "err",
                 message |-> << >>, repeat |-> FALSE, value |-> r.value,
                 metadata |-> metadata ]
  /\ ops' = ops + 1
  /\ UNCHANGED << db, tx, pc, cur, snap, rc >>

\* import canonical on the document just written
ImportExported ==
  /\ pc = "idle"
  /\ last.op = "export"
  /\ last.outcome = "ok"
  /\ \E ok \in { validate(last.value).ok } :
       /\ db' = IF ok THEN import_to_database(db, last.value).s ELSE db
       /\ last' = [ last EXCEPT !.op = "canonical", !.outcome = IF ok THEN "ok" ELSE "err" ]
  /\ tx' = db'
  /\ snap' = db
  /\ UNCHANGED << pc, cur, ops, rc >>

NextExport ==
  \/ \E i \in DOMAIN Responses : \E order \in OrdersOf(Responses[i]) :
       \E metadata \in CompetitionMetadata : Export(i, order, metadata)
  \/ ImportExported

SpecExport == Init /\ [][NextExport]_vars

\* the canonical categories of the gender a source category maps to
CategoriesOfGender(categories, genre) ==
  { c \in Range(categories) : c.gender = exporter_map_gender(genre) }

\* a source category has its own canonical category, by name and mapped
\* gender, and each of its athletes is in a canonical category of that gender
CategoryKeptApart(results, categories, entry, metadata) ==
  /\ \E c \in CategoriesOfGender(categories, entry.value.genre) :
       c.name = exporter_parse_category_name(entry.value.name).weight_class
  /\ \A athletes_data \in Range(Get(results.results, entry.key)) :
       \A athlete_data \in Range(Values(athletes_data)) :
         \E c \in CategoriesOfGender(categories, entry.value.genre) :
           build_athlete_data(metadata, athlete_data, results.movements).value
             \in Range(c.athletes)

\* C26 as stated: the document exported for a response has, for every
\* source category, a canonical category of the parsed name and the mapped
\* gender (so two source categories of one name and two genders give two
\* canonical categories), and every athlete is in a canonical category of
\* the mapped gender of the athlete's source category
C26_ExportKeepsGendersApart ==
  (last.op = "export" /\ last.outcome = "ok") =>
    \A entry \in Range(Responses[last.doc].results.categories) :
      CategoryKeptApart(Responses[last.doc].results, last.value.categories, entry,
                        last.metadata)

(***************************************************************************)
(* Slug resolution                                                         *)
(***************************************************************************)
\* AthleteRepository::find_by_slug: the rows it can return (none: NotFound);
\* the current slug is tried first, then slug_history
find_by_slug(s, slug) ==
  LET athlete == { a \in s.athletes : a.slug = slug }
  IN IF athlete # {} THEN athlete
     ELSE { a \in s.athletes : slug \in Range(a.slug_history) }

\* the operations of Spec on a store an import has filled
SpecSlugs == InitConcurrent /\ [][Next]_vars

\* C27 as stated: between operations, every current slug and every slug of
\* a slug_history resolves to the athlete that holds it, and no slug of a
\* slug_history is the current slug of another athlete
C27_SlugsKeepResolving ==
  pc = "idle" =>
    \A a \in db.athletes :
      /\ find_by_slug(db, a.slug) = { a }
      /\ \A slug \in Range(a.slug_history) :
           /\ find_by_slug(db, slug) = { a }
           /\ \A b \in db.athletes : b.slug = slug => b = a

(***************************************************************************)
(* Stored scores after canonical imports                                   *)
(***************************************************************************)
\* the score compute_ris_for_competition would write for a stored participant
\* row today: from its stored bodyweight, the sum of its stored lifts' best
\* weights, its athlete's gender and the formula for its competition's date
StoredScore(s, p) ==
  LET competition == CHOOSE c \in s.competitions :
                       Some(c.competition_id) = p.competition_id
      athlete == CHOOSE a \in s.athletes : a.athlete_id = p.athlete_id
      formula == Unwrap(get_formula_for_date(s.ris_formula_versions,
                                             competition.start_date))
  IN [ formula_id |-> formula.formula_id,
       total |-> LiftTotal(s, p.participant_id),
       ris_score |-> compute_ris(Unwrap(p.bodyweight), LiftTotal(s, p.participant_id),
                                 athlete.gender, formula) ]

\* C28: after any sequence of successful canonical imports a participant has
\* a ris_score exactly when it has a bodyweight, and then the score is
\* compute_ris of the stored bodyweight and the sum of the stored lift best
\* weights under the formula for the competition's start date, with a history
\* row holding the same score, bodyweight and total
C28_ScorePresentIffBodyweight ==
  (pc = "idle" /\ last.op = "canonical") =>
    \A p \in db.participants :
      /\ IsSome(p.ris_score) <=> IsSome(p.bodyweight)
      /\ IsSome(p.bodyweight) =>
           /\ p.ris_score = Some(StoredScore(db, p).ris_score)
           /\ \E h \in db.ris_scores_history :
                /\ h.participant_id = p.participant_id
                /\ h.formula_id = StoredScore(db, p).formula_id
                /\ h.ris_score = StoredScore(db, p).ris_score
                /\ h.bodyweight = Unwrap(p.bodyweight)
                /\ h.total_weight = StoredScore(db, p).total

(***************************************************************************)
(* Judge decisions of directly imported attempts                           *)
(***************************************************************************)
\* the three-judge decision codes, as the digits the source sends
DecisionCodes ==
  { << a, b, c >> : a \in { "0", "1" }, b \in { "0", "1" }, c \in { "0", "1" } }

\* a code as the JSON number or as the JSON string of its three digits
DecisionReps ==
  { Number(DigitsValue(code)) : code \in DecisionCodes }
  \cup { String(code) : code \in DecisionCodes }

\* a session whose one squat attempt, numbered 1 to 3, carries the decision
DecisionResponses ==
  { OneSquatSession(<< SourceAttempt(n, 100, decision_rep) >>) :
      n \in 1..3, decision_rep \in DecisionReps }

NextDecisions ==
  \E api_response \in DecisionResponses : \E order \in OrdersOf(api_response) :
    ImportSession(api_response, order)

SpecDecisions == Init /\ [][NextDecisions]_vars

\* C29: every attempt stored by the direct import is flagged successful
\* exactly when its recorded judge count is at least 2, for each of the eight
\* decision codes sent as a number or as a string
C29_SuccessAgreesWithJudges ==
  \A a \in db.attempts :
    a.is_successful <=> (IsSome(a.passing_judges) /\ Unwrap(a.passing_judges) >= 2)

(***************************************************************************)
(* Ranks across the pages of the global ranking                            *)
(***************************************************************************)
\* C30: in get_global_ranking the rank of the i-th entry on page p with page
\* size s is (p - 1) * s + i, so that the pages read in order number their
\* entries 1, 2, 3, ... with no gap and no repeat
C30_RanksContiguousAcrossPages ==
  pc = "idle" =>
    \A filter \in RankingFilters : \A ties \in BOOLEAN :
      LET r == get_global_ranking(db, filter, ties)
      IN \A i \in DOMAIN r.entries :
           r.entries[i].rank
             = (filter.pagination.page - 1) * filter.pagination.page_size + i

====
